---- MODULE Spec2Model ----
(***************************************************************************)
(* Model of the session-learning hook of amplifier-session-insights        *)
(* (modules/hooks-session-learning): SessionLearningHook, InsightsStorage  *)
(* and InsightsGenerator.                                                  *)
(*                                                                         *)
(*   Spec         a mounted hook, of any configuration, and the one        *)
(*                session:end event of a session, from its delivery to the *)
(*                end of the analysis it starts                            *)
(*   SpecStorage  InsightsStorage driven directly, one file-system step at *)
(*                a time, with process crashes between the steps           *)
(***************************************************************************)
EXTENDS Integers, Sequences, FiniteSets, TLC

\* ------------------------------------------------------------------ bounds
\* turn counts range over 0..MaxTurns, turn thresholds over {1, MaxTurns}
MaxTurns == 2
\* durations range over 0..MaxDur, duration thresholds over {1, MaxDur}
MaxDur == 2
\* save operations started in SpecStorage
MaxSaves == 2
\* session:end events delivered in SpecConcurrent
MaxTriggers == 2
\* lines of an event log in SpecScan
MaxLines == 3
\* max_events_to_process ranges over 1..MaxCap in SpecScan
MaxCap == 2
\* messages of a conversation in SpecSample
MaxMessages == 11
\* max_chars ranges over 0..MaxChars in SpecSample
MaxChars == 24

\* ------------------------------------------------------------- value sets
SessionIds == {"s1", "s2"}
\* the session whose end Spec follows
EndingSessions == {"s1"}
\* data.get("session_id") of an event that carries none
NoId == "none"
\* metadata.get("session_id", "unknown")
UnknownId == "unknown"
StorageIds == SessionIds \cup {UnknownId}
\* what the provider may put in the "outcome" field of its answer
OutcomeTexts == {"success", "great"}
TagTexts == {"debugging"}
None == [none |-> TRUE]

\* ------------------------------------------------------------ file system
Dirs == {"metrics", "sessions"}
Suffixes == {"json", "tmp"}
Paths == [dir : Dirs, stem : StorageIds, suffix : Suffixes]
Absent == [exists |-> FALSE, text |-> <<>>]
NoFiles == [p \in Paths |-> Absent]

\* self.metrics_dir / f"{session_id}.json", self.insights_dir / f"{session_id}.json"
FilePath(dir, id) == [dir |-> dir, stem |-> id, suffix |-> "json"]

\* a save that writes the final path itself
TempPathInPlace(file_path) == file_path
\* temp_path = file_path.with_suffix(".tmp")
TempPath(file_path) == [file_path EXCEPT !.suffix = "tmp"]

\* json.dumps: the envelope as a token sequence, one token per key
Tok(k, v) == <<k, v>>
LBrace == Tok("{", "{")
RBrace == Tok("}", "}")
MetricsKeys == <<"session_id", "metrics", "has_llm_analysis">>
InsightsKeys == <<"session_id", "metrics", "outcome", "tags">>
JsonDumps(dict, keys) ==
    <<LBrace>> \o [i \in 1..Len(keys) |-> Tok(keys[i], dict[keys[i]])] \o <<RBrace>>

\* json.loads: the dict of a complete token sequence, None for anything else
\* (an empty or truncated file raises JSONDecodeError)
IsJson(text) ==
    /\ Len(text) >= 2
    /\ text[1][1] = "{"
    /\ text[Len(text)][1] = "}"
    /\ \A i \in 2..(Len(text) - 1) : text[i][1] \notin {"{", "}"}
JsonLoads(text) ==
    IF IsJson(text)
    THEN LET body == SubSeq(text, 2, Len(text) - 1)
             keys == {body[i][1] : i \in DOMAIN body}
         IN [k \in keys |-> body[CHOOSE i \in DOMAIN body : body[i][1] = k][2]]
    ELSE None

\* Path.write_text cut after n tokens (n = Len(text): the whole text)
WriteText(fs, path, text, n) ==
    [fs EXCEPT ![path] = [exists |-> TRUE, text |-> SubSeq(text, 1, n)]]
\* a rename that leaves an existing target as it is
ReplaceUnlessExists(fs, src, dst) ==
    IF src = dst THEN fs
    ELSE IF fs[dst].exists THEN [fs EXCEPT ![src] = Absent]
    ELSE [fs EXCEPT ![dst] = fs[src], ![src] = Absent]
\* Path.replace: an atomic rename over the target
Replace(fs, src, dst) ==
    IF src = dst THEN fs ELSE [fs EXCEPT ![dst] = fs[src], ![src] = Absent]

\* ---------------------------------------------------------------- records
\* SessionMetrics as built by extract_metrics
Metrics(id, turns, dur) ==
    [session_id |-> id, turn_count |-> turns, duration_seconds |-> dur]
\* metrics_dict of save_metrics_only
MetricsDict(metrics) ==
    [session_id |-> metrics.session_id,
     metrics |-> [turn_count |-> metrics.turn_count,
                  duration_seconds |-> metrics.duration_seconds],
     has_llm_analysis |-> FALSE]
\* insights_dict of save_insights
InsightsDict(insights) ==
    [session_id |-> insights.session_id,
     metrics |-> insights.metrics,
     outcome |-> insights.outcome,
     tags |-> insights.tags]

\* A save in progress: the final path, the serialized dict and the position
\* in the try block shared by save_metrics_only and save_insights
\*   "mkdir"    before <dir>.mkdir(parents=True, exist_ok=True)
\*   "open"     before write_text opens (creates or truncates) temp_path
\*   "write"    `written` tokens of the text are in temp_path
\*   "replace"  before temp_path.replace(file_path)
\*   "returned" file_path was returned
BeginSave(file_path, text) ==
    [pc |-> "mkdir", file_path |-> file_path, text |-> text, written |-> 0]

\* one file-system step of a save
SaveStep(fs, o) ==
    LET temp_path == TempPath(o.file_path) IN
    CASE o.pc = "mkdir" -> [fs |-> fs, o |-> [o EXCEPT !.pc = "open"]]
      [] o.pc = "open" ->
            [fs |-> WriteText(fs, temp_path, o.text, 0),
             o |-> [o EXCEPT !.pc = "write"]]
      [] o.pc = "write" ->
            [fs |-> WriteText(fs, temp_path, o.text, o.written + 1),
             o |-> [o EXCEPT !.written = @ + 1,
                             !.pc = IF o.written + 1 = Len(o.text)
                                    THEN "replace" ELSE "write"]]
      [] OTHER ->
            [fs |-> Replace(fs, temp_path, o.file_path),
             o |-> [o EXCEPT !.pc = "returned"]]

\* where an OSError strikes a save: nowhere, in mkdir, when write_text opens
\* the file, in write_text after n tokens, or in replace
Fault(at, n) == [at |-> at, n |-> n]
NoFault == Fault("none", 0)
\* every place an OSError can strike a save of this text
Faults(text) ==
    {NoFault, Fault("mkdir", 0), Fault("open", 0), Fault("replace", 0)} \cup
    {Fault("write", n) : n \in 0..(Len(text) - 1)}
\* the faults the saves of an analysis pass are exposed to: none, or
\* write_text failing after the opening brace and one key
HookFaults == {NoFault, Fault("write", 2)}
Strikes(fault, o) ==
    /\ fault.at = o.pc
    /\ fault.at = "write" => fault.n = o.written

\* a save whose error handler removes the final file
RECURSIVE RunSaveUnlinking(_, _, _)
RunSaveUnlinking(fs, o, fault) ==
    IF o.pc = "returned" THEN [fs |-> fs, ret |-> o.file_path]
    ELSE IF Strikes(fault, o)
         THEN [fs |-> [fs EXCEPT ![o.file_path] = Absent], ret |-> None]
    ELSE LET r == SaveStep(fs, o) IN RunSaveUnlinking(r.fs, r.o, fault)
\* the whole try block: the steps in order, up to the return of file_path or
\* up to the OSError, which is caught and returns None
RECURSIVE RunSave(_, _, _)
RunSave(fs, o, fault) ==
    IF o.pc = "returned" THEN [fs |-> fs, ret |-> o.file_path]
    ELSE IF Strikes(fault, o) THEN [fs |-> fs, ret |-> None]
    ELSE LET r == SaveStep(fs, o) IN RunSave(r.fs, r.o, fault)

AtomicWrite(fs, file_path, text, fault) ==
    RunSave(fs, BeginSave(file_path, text), fault)

SaveMetricsOnly(fs, metrics, fault) ==
    AtomicWrite(fs, FilePath("metrics", metrics.session_id),
                JsonDumps(MetricsDict(metrics), MetricsKeys), fault)

SaveInsights(fs, insights, fault) ==
    AtomicWrite(fs, FilePath("sessions", insights.session_id),
                JsonDumps(InsightsDict(insights), InsightsKeys), fault)

\* a load that falls back on the metrics-only record of the session
LoadInsightsOrMetrics(fs, session_id) ==
    LET file_path == FilePath("sessions", session_id)
        metrics_path == FilePath("metrics", session_id)
    IN IF fs[file_path].exists THEN JsonLoads(fs[file_path].text)
       ELSE IF fs[metrics_path].exists THEN JsonLoads(fs[metrics_path].text)
       ELSE None
\* load_insights: the record in insights_dir, absent without one
LoadInsights(fs, session_id) ==
    LET file_path == FilePath("sessions", session_id) IN
    IF ~fs[file_path].exists THEN None ELSE JsonLoads(fs[file_path].text)


\* ------------------------------------------------------------ configuration
\* SessionLearningConfig as mount builds it; every field is free, since mount
\* validates nothing.  A turn minimum is one turn or the largest turn count, a
\* duration minimum is the shortest or the longest duration, and the sessions
\* take every count and duration in between.
Modes == {"automatic", "threshold", "on_demand"}
MinTurns == {1, MaxTurns}
MinDurations == {1, MaxDur}
Configs ==
    [always_save_metrics : BOOLEAN,
     min_turns_for_metrics : MinTurns,
     min_duration_for_metrics : MinDurations,
     llm_analysis_mode : Modes,
     min_turns_for_llm_analysis : MinTurns,
     min_duration_for_llm_analysis : MinDurations,
     min_turns_for_analysis : MinTurns,
     min_duration_seconds : MinDurations,
     run_in_background : BOOLEAN]

\* ------------------------------------------------------- session artifacts
\* Python values read from JSON
PyAbsent == [t |-> "absent"]
PyInt(n) == [t |-> "int", v |-> n]
PyStr(s) == [t |-> "str", s |-> s]
PyList == [t |-> "list"]
PyDict(turn_count, session_id) ==
    [t |-> "dict", turn_count |-> turn_count, session_id |-> session_id]
EmptyDict == PyDict(PyAbsent, PyAbsent)
\* dict.get(key, default)
DictGet(d, key, default) == IF d[key].t = "absent" THEN default ELSE d[key]

\* metadata.json of a session directory: missing, not JSON, or JSON of any shape
MetaValues(session_id) ==
    {PyList} \cup
    {PyDict(tc, id) :
        tc \in {PyAbsent, PyStr("many")} \cup {PyInt(n) : n \in 0..MaxTurns},
        id \in {PyAbsent, PyStr(session_id)}}
MetaFiles(session_id) ==
    {[state |-> "missing"], [state |-> "corrupt"]} \cup
    {[state |-> "json", value |-> v] : v \in MetaValues(session_id)}

\* events.jsonl: missing, unreadable (OSError), holding a line that parses to
\* something other than an object, or a readable log whose first and last
\* timestamps are `duration` seconds apart
EventLogs ==
    {[state |-> "missing"], [state |-> "unreadable"], [state |-> "not_object"]} \cup
    {[state |-> "ok", duration |-> d] : d \in 0..MaxDur}

\* _load_metadata: {} unless the file exists and parses
LoadMetadata(file) == IF file.state = "json" THEN file.value ELSE EmptyDict

\* extract_metrics: None without a readable log; event.get on a non-object
\* raises AttributeError; otherwise the metrics, with id and turn count taken
\* from the metadata
ExtractMetrics(log, metadata) ==
    CASE log.state \in {"missing", "unreadable"} -> [raised |-> FALSE, metrics |-> None]
      [] log.state = "not_object" -> [raised |-> TRUE, metrics |-> None]
      [] OTHER ->
            [raised |-> FALSE,
             metrics |-> Metrics(DictGet(metadata, "session_id", PyStr(UnknownId)).s,
                                 DictGet(metadata, "turn_count", PyInt(0)).v,
                                 log.duration)]

\* ---------------------------------------------------------------- provider
\* what awaiting provider.complete under wait_for ends in
\* the text of a response: one flat JSON object, alone or inside prose, the
\* empty object, or text that is no JSON
ResponseDicts ==
    [outcome : {PyAbsent} \cup {PyStr(o) : o \in OutcomeTexts},
     tags : {PyAbsent} \cup {PyStr(t) : t \in TagTexts}]
Responses ==
    {[form |-> f, dict |-> d] : f \in {"json", "prose_json"}, d \in ResponseDicts}
    \cup {[form |-> "empty_object"], [form |-> "malformed"]}
ProviderResults ==
    {[kind |-> "exception"], [kind |-> "timeout"], [kind |-> "no_content"]} \cup
    {[kind |-> "text", response |-> r] : r \in Responses}

\* _parse_response: the object found by the brace pattern, else the whole text;
\* None on JSONDecodeError
ParseResponse(response) ==
    IF response.form \in {"json", "prose_json"} THEN response.dict
    ELSE IF response.form = "empty_object" THEN [empty |-> TRUE]
    ELSE None

\* generate_insights answering a timeout with a placeholder insight
GenerateInsightsOnTimeout(metrics, result) ==
    IF result.kind = "timeout"
    THEN [session_id |-> metrics.session_id,
          metrics |-> [turn_count |-> metrics.turn_count,
                       duration_seconds |-> metrics.duration_seconds],
          outcome |-> "unknown", tags |-> <<>>]
    ELSE IF result.kind # "text" THEN None
    ELSE LET parsed == ParseResponse(result.response) IN
         IF parsed = None \/ parsed = [empty |-> TRUE] THEN None
         ELSE [session_id |-> metrics.session_id,
               metrics |-> [turn_count |-> metrics.turn_count,
                            duration_seconds |-> metrics.duration_seconds],
               outcome |-> DictGet(parsed, "outcome", PyStr("unknown")).s,
               tags |-> IF parsed.tags.t = "absent" THEN <<>> ELSE <<parsed.tags.s>>]
\* generate_insights after the provider call: None on timeout, on an empty or
\* failed call, and on a falsy parse result; otherwise the SessionInsights
GenerateInsights(metrics, result) ==
    IF result.kind # "text" THEN None
    ELSE LET parsed == ParseResponse(result.response) IN
         IF parsed = None \/ parsed = [empty |-> TRUE] THEN None
         ELSE [session_id |-> metrics.session_id,
               metrics |-> [turn_count |-> metrics.turn_count,
                            duration_seconds |-> metrics.duration_seconds],
               outcome |-> DictGet(parsed, "outcome", PyStr("unknown")).s,
               tags |-> IF parsed.tags.t = "absent" THEN <<>> ELSE <<parsed.tags.s>>]


\* -------------------------------------------------------------------- state
VARIABLES
    config,        \* SessionLearningHook.config, fixed at mount
    files,         \* the insights root: path -> file
    passes,        \* one record per session:end event delivered so far
    active_tasks,  \* SessionLearningHook._active_tasks (indices into passes)
    emitted,       \* session-learning:complete events handed to hooks.emit
    op,            \* SpecStorage: the save in progress
    loaded,        \* SpecStorage: what the last load_insights returned
    committed,     \* SpecStorage: per id, the dict of the last save_insights that returned a path
    nSaves,        \* SpecStorage: saves started
    scan,          \* SpecScan: the locals of one extract_metrics call
    sample,        \* SpecSample: one _format_conversation_sample call
    call           \* one call of a function followed by itself: its arguments and result

vars == <<config, files, passes, active_tasks, emitted, op, loaded, committed, nSaves,
          scan, sample, call>>
hookVars == <<config, passes, active_tasks, emitted>>
storageVars == <<op, loaded, committed, nSaves>>
extractorVars == <<scan, sample, call>>
NoCall == [pc |-> "idle"]

NoOp == [pc |-> "idle", ret |-> "nothing"]
NotCalled == [called |-> FALSE]

\* what a session left on disk when it ended: no directory, or a directory
\* with its metadata.json and events.jsonl
NoDir == [dir_exists |-> FALSE, meta_file |-> [state |-> "missing"],
          log |-> [state |-> "missing"]]
Sessions(session_id) ==
    {NoDir} \cup
    {[dir_exists |-> TRUE, meta_file |-> m, log |-> l] :
        m \in MetaFiles(session_id), l \in EventLogs}

\* a pass: the handler call for one event and the analysis it starts
\*   session       the session directory the event refers to
\*   pc            where the analysis stands
\*   handler       "running" until on_session_end returns "continue" or raises
\*   trace         the steps of the analysis path taken so far, in order
\*   metrics_ret, insights_ret   what the two saves returned
\*   providers     what coordinator.get("providers") held when _call_provider
\*                 looked: "none" or "registered"
\*   provider      how the provider call ended
NewPass(session_id, session) ==
    [session_id |-> session_id, session |-> session,
     pc |-> "handler", handler |-> "running",
     metadata |-> EmptyDict, metrics |-> None, insights |-> None,
     metrics_ret |-> NotCalled, insights_ret |-> NotCalled,
     providers |-> "not_read", provider |-> "not_called", trace |-> <<>>]

Finished(pass) == pass.pc \in {"skipped", "raised", "done", "cancelled"}

\* _analyze_session_safe returns (normally, or with the error swallowed): an
\* inline handler returns "continue" after it
EndAnalysis(pass, pc) ==
    [pass EXCEPT !.pc = pc,
                 !.handler = IF pass.handler = "running" THEN "continue" ELSE @]

\* the tier-1 gate read from the legacy thresholds
ShouldSaveMetricsLegacy(cfg, metrics) ==
    /\ cfg.always_save_metrics
    /\ metrics.turn_count >= cfg.min_turns_for_analysis
    /\ metrics.duration_seconds >= cfg.min_duration_seconds
\* the tier-1 gate with strict comparisons
ShouldSaveMetricsAboveMinimum(cfg, metrics) ==
    /\ cfg.always_save_metrics
    /\ metrics.turn_count > cfg.min_turns_for_metrics
    /\ metrics.duration_seconds > cfg.min_duration_for_metrics
\* the tier-1 gate of _analyze_session
ShouldSaveMetrics(cfg, metrics) ==
    /\ cfg.always_save_metrics
    /\ metrics.turn_count >= cfg.min_turns_for_metrics
    /\ metrics.duration_seconds >= cfg.min_duration_for_metrics

\* should_run_llm with every mode run on the legacy thresholds
ShouldRunLlmLegacy(cfg, metrics) ==
    /\ cfg.llm_analysis_mode \in {"automatic", "threshold"}
    /\ metrics.turn_count >= cfg.min_turns_for_analysis
    /\ metrics.duration_seconds >= cfg.min_duration_seconds
\* should_run_llm with on_demand falling through to the automatic branch
ShouldRunLlmNoOnDemand(cfg, metrics) ==
    IF cfg.llm_analysis_mode = "threshold"
    THEN /\ metrics.turn_count >= cfg.min_turns_for_llm_analysis
         /\ metrics.duration_seconds >= cfg.min_duration_for_llm_analysis
    ELSE /\ metrics.turn_count >= cfg.min_turns_for_analysis
         /\ metrics.duration_seconds >= cfg.min_duration_seconds
\* should_run_llm with the thresholds of the two modes exchanged
ShouldRunLlmSwapped(cfg, metrics) ==
    CASE cfg.llm_analysis_mode = "threshold" ->
            /\ metrics.turn_count >= cfg.min_turns_for_analysis
            /\ metrics.duration_seconds >= cfg.min_duration_seconds
      [] cfg.llm_analysis_mode = "automatic" ->
            /\ metrics.turn_count >= cfg.min_turns_for_llm_analysis
            /\ metrics.duration_seconds >= cfg.min_duration_for_llm_analysis
      [] OTHER -> FALSE
\* should_run_llm of _analyze_session
ShouldRunLlm(cfg, metrics) ==
    CASE cfg.llm_analysis_mode = "automatic" ->
            /\ metrics.turn_count >= cfg.min_turns_for_analysis
            /\ metrics.duration_seconds >= cfg.min_duration_seconds
      [] cfg.llm_analysis_mode = "threshold" ->
            /\ metrics.turn_count >= cfg.min_turns_for_llm_analysis
            /\ metrics.duration_seconds >= cfg.min_duration_for_llm_analysis
      [] OTHER -> FALSE

\* a lookup that takes a provider for granted
ProviderLookupAssumed(providers) == "request"
\* _call_provider up to the request: without a provider it returns None, with
\* one it builds the ChatRequest and awaits provider.complete
ProviderLookup(providers) == IF providers = "none" THEN "return_none" ELSE "request"

\* _analyze_session from its start to its first suspension point (the provider
\* call) or its end: extraction, tier 1, the tier-2 decision, the sample, the
\* provider lookup. Returns the pass and the file system after it.
AnalyzeSession(cfg, pass, fs, fault, sample_ok, has_provider) ==
    LET ex == ExtractMetrics(pass.session.log, pass.metadata)
        metrics == ex.metrics
        p1 == [pass EXCEPT !.trace = Append(@, "extract")]
    IN
    IF ex.raised \/ metrics = None
    THEN [pass |-> EndAnalysis(p1, "done"), fs |-> fs]
    ELSE
    LET tier1 == ShouldSaveMetrics(cfg, metrics)
        saved == SaveMetricsOnly(fs, metrics, fault)
        fs2 == IF tier1 THEN saved.fs ELSE fs
        p2 == [p1 EXCEPT !.metrics = metrics,
                         !.metrics_ret = IF tier1 THEN saved.ret ELSE @,
                         !.trace = IF tier1 THEN Append(@, "save_metrics") ELSE @]
    IN
    IF ~ShouldRunLlm(cfg, metrics)
    THEN [pass |-> EndAnalysis(p2, "done"), fs |-> fs2]
    ELSE
    LET p3 == [p2 EXCEPT !.trace = Append(@, "sample")] IN
    IF ~sample_ok
    THEN [pass |-> EndAnalysis(p3, "done"), fs |-> fs2]
    ELSE
    LET p4 == [p3 EXCEPT !.providers = IF has_provider THEN "registered" ELSE "none"]
    IN
    IF ProviderLookup(p4.providers) = "return_none"
    THEN [pass |-> EndAnalysis([p4 EXCEPT !.provider = "none_registered"], "done"),
          fs |-> fs2]
    ELSE [pass |-> [p4 EXCEPT !.pc = "await_provider",
                              !.trace = Append(@, "provider_call")],
          fs |-> fs2]

\* the legacy gate read from the metrics-tier minimum
GateOnMetricsMinimum(cfg, session_id, dir_exists, metadata) ==
    CASE session_id = NoId -> "skip"
      [] ~dir_exists -> "skip"
      [] metadata.t # "dict" -> "raise"
      [] DictGet(metadata, "turn_count", PyInt(0)).t # "int" -> "raise"
      [] DictGet(metadata, "turn_count", PyInt(0)).v < cfg.min_turns_for_metrics -> "skip"
      [] OTHER -> "analyze"
\* the checks of on_session_end before the analysis: "skip" for the early
\* returns, "raise" where metadata.get or the comparison raises, else "analyze"
Gate(cfg, session_id, dir_exists, metadata) ==
    CASE session_id = NoId -> "skip"
      [] ~dir_exists -> "skip"
      [] metadata.t # "dict" -> "raise"
      [] DictGet(metadata, "turn_count", PyInt(0)).t # "int" -> "raise"
      [] DictGet(metadata, "turn_count", PyInt(0)).v < cfg.min_turns_for_analysis -> "skip"
      [] OTHER -> "analyze"

\* the branch of on_session_end never taken: every analysis awaited inline
RunInBackgroundNever(cfg) == FALSE
\* `if self.config.run_in_background` of on_session_end
RunInBackground(cfg) == cfg.run_in_background

\* --------------------------------------------------------------------- hook
Init ==
    /\ config \in Configs
    /\ files = NoFiles
    /\ passes = <<>>
    /\ active_tasks = {}
    /\ emitted = <<>>
    /\ op = NoOp
    /\ loaded = None
    /\ committed = [id \in StorageIds |-> None]
    /\ nSaves = 0
    /\ scan = NoCall
    /\ sample = NoCall
    /\ call = NoCall

\* a task created without the metadata the handler loaded
SpawnWithoutMetadata(pass) ==
    [NewPass(pass.session_id, pass.session) EXCEPT !.pc = "spawned",
                                                   !.handler = "continue"]
\* create_task(_analyze_session_safe(session_id, session_dir, metadata)) and
\* the return of "continue": the task holds the handler's arguments
Spawn(pass) == [pass EXCEPT !.pc = "spawned", !.handler = "continue"]

\* on_session_end(event, data) for one event, up to its return or, inline, up
\* to the first suspension point of the analysis it awaits, for the write
\* faults of `faults` and the sample and provider lookups of `samples` and
\* `lookups`
HandleSessionEndOf(session_id, session, faults, samples, lookups) ==
    LET metadata == LoadMetadata(session.meta_file)
        gate == Gate(config, session_id, session.dir_exists, metadata)
        new == NewPass(session_id, session)
        pass == [new EXCEPT !.metadata = metadata]
    IN
    /\ \/ /\ gate = "skip"
          /\ passes' = Append(passes, [new EXCEPT !.pc = "skipped",
                                                  !.handler = "continue"])
          /\ UNCHANGED <<files, active_tasks>>
       \/ /\ gate = "raise"
          /\ passes' = Append(passes, [new EXCEPT !.pc = "raised",
                                                  !.handler = "raised"])
          /\ UNCHANGED <<files, active_tasks>>
       \/ /\ gate = "analyze"
          /\ RunInBackground(config)
          /\ passes' = Append(passes, Spawn(pass))
          /\ active_tasks' = active_tasks \cup {Len(passes) + 1}
          /\ UNCHANGED files
       \/ /\ gate = "analyze"
          /\ ~RunInBackground(config)
          /\ \E fault \in faults, sample_ok \in samples, has_provider \in lookups :
               LET r == AnalyzeSession(config, pass, files, fault,
                                       sample_ok, has_provider)
               IN /\ passes' = Append(passes, r.pass)
                  /\ files' = r.fs
          /\ UNCHANGED active_tasks
    /\ UNCHANGED <<config, emitted, storageVars, extractorVars>>
HandleSessionEnd(session_id, session) ==
    HandleSessionEndOf(session_id, session, HookFaults, BOOLEAN, BOOLEAN)

\* the session:end event of the session, with whatever the session left on disk
OnSessionEnd ==
    /\ passes = <<>>
    /\ \E session_id \in EndingSessions \cup {NoId} :
       \E session \in IF session_id = NoId THEN {NoDir} ELSE Sessions(session_id) :
          HandleSessionEnd(session_id, session)

\* the background task's first step: _analyze_session_safe up to the first
\* suspension point, for the write faults and the sample and provider lookups
\* of `faults`, `samples` and `lookups`
TaskStartIn(i, faults, samples, lookups) ==
    /\ passes[i].pc = "spawned"
    /\ \E fault \in faults, sample_ok \in samples, has_provider \in lookups :
        LET r == AnalyzeSession(config, passes[i], files, fault,
                                sample_ok, has_provider)
        IN /\ passes' = [passes EXCEPT ![i] = r.pass]
           /\ files' = r.fs
    /\ UNCHANGED <<config, active_tasks, emitted, storageVars, extractorVars>>
TaskStartOf(i, faults, found) == TaskStartIn(i, faults, found, found)
TaskStart(i) == TaskStartOf(i, HookFaults, BOOLEAN)

\* a pass that calls the provider a second time after a timeout
ReturnWithoutInsightsRetrying(pass) ==
    IF pass.provider = "timeout" /\ ~(\E j, k \in DOMAIN pass.trace :
                                        /\ j < k
                                        /\ pass.trace[j] = "provider_call"
                                        /\ pass.trace[k] = "provider_call")
    THEN [pass EXCEPT !.pc = "await_provider", !.trace = Append(@, "provider_call")]
    ELSE EndAnalysis(pass, "done")
\* `if not insights: return` of _analyze_session
ReturnWithoutInsights(pass) == EndAnalysis(pass, "done")

\* a completion event only for an insight that was written to disk
EmitCompleteIfSaved(i, pass) ==
    IF pass.insights_ret = None THEN <<>>
    ELSE <<[session_id |-> pass.session_id, outcome |-> pass.insights.outcome,
            tags |-> pass.insights.tags, pass |-> i]>>
\* hooks.emit("session-learning:complete", ...) after save_insights, whatever
\* the save returned: the events handed to the host by pass i
EmitComplete(i, pass) ==
    <<[session_id |-> pass.session_id, outcome |-> pass.insights.outcome,
       tags |-> pass.insights.tags, pass |-> i]>>

\* the provider call ends (answer, exception or timeout): generate_insights
\* returns, and on an insight save_insights runs and hooks.emit is called
ProviderReturnOf(i, results, faults) ==
    /\ passes[i].pc = "await_provider"
    /\ \E result \in results, fault \in faults :
        LET pass == [passes[i] EXCEPT !.provider = result.kind]
            insights == GenerateInsights(pass.metrics, result)
            saved == SaveInsights(files, insights, fault)
        IN
        IF insights = None
        THEN /\ passes' = [passes EXCEPT ![i] = ReturnWithoutInsights(pass)]
             /\ UNCHANGED <<files, emitted>>
        ELSE LET p5 == [pass EXCEPT !.pc = "await_emit",
                                    !.insights = insights,
                                    !.insights_ret = saved.ret,
                                    !.trace = @ \o <<"save_insights", "emit">>]
             IN /\ files' = saved.fs
                /\ emitted' = emitted \o EmitComplete(i, p5)
                /\ passes' = [passes EXCEPT ![i] = p5]
    /\ UNCHANGED <<config, active_tasks, storageVars, extractorVars>>
ProviderReturn(i) == ProviderReturnOf(i, ProviderResults, HookFaults)

\* hooks.emit returns or raises: either way the analysis ends
EmitReturn(i) ==
    /\ passes[i].pc = "await_emit"
    /\ passes' = [passes EXCEPT ![i] = EndAnalysis(passes[i], "done")]
    /\ UNCHANGED <<config, files, active_tasks, emitted, storageVars, extractorVars>>

\* a cancellation that _analyze_session_safe lets through to the awaiting handler
CancelUncaught(i) ==
    /\ passes[i].pc \in {"spawned", "await_provider", "await_emit"}
    /\ passes' = [passes EXCEPT ![i].pc = "cancelled",
                                ![i].handler = IF @ = "running" THEN "raised" ELSE @]
    /\ UNCHANGED <<config, files, active_tasks, emitted, storageVars, extractorVars>>
\* the host cancels the task at a suspension point (or before its first
\* step): CancelledError is caught by _analyze_session_safe
Cancel(i) ==
    /\ passes[i].pc \in {"spawned", "await_provider", "await_emit"}
    /\ passes' = [passes EXCEPT ![i] = EndAnalysis(passes[i], "cancelled")]
    /\ UNCHANGED <<config, files, active_tasks, emitted, storageVars, extractorVars>>

\* a done callback that discards only the tasks that ran to their end
DoneCallbackOnSuccess(i) ==
    /\ i \in active_tasks
    /\ passes[i].pc = "done"
    /\ active_tasks' = active_tasks \ {i}
    /\ UNCHANGED <<config, files, passes, emitted, storageVars, extractorVars>>
\* task.add_done_callback(self._active_tasks.discard)
DoneCallback(i) ==
    /\ i \in active_tasks
    /\ Finished(passes[i])
    /\ active_tasks' = active_tasks \ {i}
    /\ UNCHANGED <<config, files, passes, emitted, storageVars, extractorVars>>

Next ==
    \/ OnSessionEnd
    \/ \E i \in DOMAIN passes : TaskStart(i)
    \/ \E i \in DOMAIN passes : ProviderReturn(i)
    \/ \E i \in DOMAIN passes : EmitReturn(i)
    \/ \E i \in DOMAIN passes : Cancel(i)
    \/ \E i \in DOMAIN passes : DoneCallback(i)

Spec == Init /\ [][Next]_vars

\* -------------------------------------------------------- concurrent events
\* Several session:end events, for the same or for different sessions, handled
\* by one hook that analyses in the background; every session is long enough
\* for both tiers.
ConcurrentConfig ==
    [always_save_metrics |-> TRUE,
     min_turns_for_metrics |-> 1, min_duration_for_metrics |-> 1,
     llm_analysis_mode |-> "automatic",
     min_turns_for_llm_analysis |-> 1, min_duration_for_llm_analysis |-> 1,
     min_turns_for_analysis |-> 1, min_duration_seconds |-> 1,
     run_in_background |-> TRUE]
\* what the session left: nothing, metadata that is no object, or metadata with
\* the turn count and with or without the session's id
ConcurrentSessions(session_id) ==
    {NoDir} \cup
    {[dir_exists |-> TRUE,
      meta_file |-> [state |-> "json", value |-> v],
      log |-> [state |-> "ok", duration |-> MaxDur]] :
        v \in {PyList, PyDict(PyInt(MaxTurns), PyStr(session_id)),
               PyDict(PyInt(MaxTurns), PyAbsent)}}
\* the provider fails, or answers with one of the outcomes
ConcurrentResults ==
    {[kind |-> "exception"]} \cup
    {[kind |-> "text",
      response |-> [form |-> "json",
                    dict |-> [outcome |-> PyStr(o), tags |-> PyAbsent]]] :
        o \in OutcomeTexts}

InitConcurrent ==
    /\ config = ConcurrentConfig
    /\ files = NoFiles
    /\ passes = <<>>
    /\ active_tasks = {}
    /\ emitted = <<>>
    /\ op = NoOp
    /\ loaded = None
    /\ committed = [id \in StorageIds |-> None]
    /\ nSaves = 0
    /\ scan = NoCall
    /\ sample = NoCall
    /\ call = NoCall

\* one more session:end event is delivered
OnSessionEndConcurrent ==
    /\ Len(passes) < MaxTriggers
    /\ \E session_id \in SessionIds :
       \E session \in ConcurrentSessions(session_id) :
          HandleSessionEnd(session_id, session)

NextConcurrent ==
    \/ OnSessionEndConcurrent
    \/ \E i \in DOMAIN passes : TaskStartOf(i, {NoFault}, {TRUE})
    \/ \E i \in DOMAIN passes : ProviderReturnOf(i, ConcurrentResults, {NoFault})
    \/ \E i \in DOMAIN passes : EmitReturn(i)
    \/ \E i \in DOMAIN passes : Cancel(i)
    \/ \E i \in DOMAIN passes : DoneCallback(i)

SpecConcurrent == InitConcurrent /\ [][NextConcurrent]_vars

\* ------------------------------------------------------------ task registry
\* The same hook followed for the life cycle of its tasks alone: every event is
\* for one session, which left nothing, metadata that is no object, or a long
\* session; the provider fails or answers.
RegistrySessions(session_id) ==
    {NoDir} \cup
    {[dir_exists |-> TRUE,
      meta_file |-> [state |-> "json", value |-> v],
      log |-> [state |-> "ok", duration |-> MaxDur]] :
        v \in {PyList, PyDict(PyInt(MaxTurns), PyStr(session_id))}}
RegistryResults ==
    {[kind |-> "exception"],
     [kind |-> "text",
      response |-> [form |-> "json",
                    dict |-> [outcome |-> PyStr("success"), tags |-> PyAbsent]]]}

OnSessionEndRegistry ==
    /\ Len(passes) < MaxTriggers
    /\ \E session_id \in EndingSessions :
       \E session \in RegistrySessions(session_id) :
          HandleSessionEnd(session_id, session)

NextRegistry ==
    \/ OnSessionEndRegistry
    \/ \E i \in DOMAIN passes : TaskStartOf(i, {NoFault}, {TRUE})
    \/ \E i \in DOMAIN passes : ProviderReturnOf(i, RegistryResults, {NoFault})
    \/ \E i \in DOMAIN passes : EmitReturn(i)
    \/ \E i \in DOMAIN passes : Cancel(i)
    \/ \E i \in DOMAIN passes : DoneCallback(i)

\* the event loop runs the done callback of a finished task: call_soon puts it
\* on the ready queue, and the loop runs everything on that queue
SpecRegistry ==
    /\ InitConcurrent
    /\ [][NextRegistry]_vars
    /\ \A i \in 1..MaxTriggers : WF_vars(DoneCallback(i))

\* ------------------------------------------------------------ failing saves
\* The same hook with every save exposed to an OSError in mkdir, in write_text
\* after the opening brace and one key, and in the rename; every event is for
\* one long session, the provider answers with one of the outcomes, and no
\* task is cancelled.
SaveFaults == {NoFault, Fault("mkdir", 0), Fault("write", 2), Fault("replace", 0)}
FaultySessions(session_id) ==
    {[dir_exists |-> TRUE,
      meta_file |-> [state |-> "json",
                     value |-> PyDict(PyInt(MaxTurns), PyStr(session_id))],
      log |-> [state |-> "ok", duration |-> MaxDur]]}
FaultyResults == {r \in ConcurrentResults : r.kind = "text"}

OnSessionEndFaulty ==
    /\ Len(passes) < MaxTriggers
    /\ \E session_id \in EndingSessions :
       \E session \in FaultySessions(session_id) :
          HandleSessionEnd(session_id, session)

NextFaulty ==
    \/ OnSessionEndFaulty
    \/ \E i \in DOMAIN passes : TaskStartOf(i, SaveFaults, {TRUE})
    \/ \E i \in DOMAIN passes : ProviderReturnOf(i, FaultyResults, SaveFaults)
    \/ \E i \in DOMAIN passes : EmitReturn(i)
    \/ \E i \in DOMAIN passes : DoneCallback(i)

SpecFaulty == InitConcurrent /\ [][NextFaulty]_vars

\* ---------------------------------------------------------- the two modes
\* One session:end event handled by a hook mounted with run_in_background
\* off, then the same event handled by a hook mounted with it on, over an
\* empty insights root and with the surroundings behaving as they did the
\* first time: the same save faults, the same conversation sample, the same
\* provider registry and the same end of the provider call.  No task is
\* cancelled.
ModeConfigs ==
    {[always_save_metrics |-> a,
      min_turns_for_metrics |-> t, min_duration_for_metrics |-> 1,
      llm_analysis_mode |-> mode,
      min_turns_for_llm_analysis |-> t, min_duration_for_llm_analysis |-> 1,
      min_turns_for_analysis |-> 1, min_duration_seconds |-> 1,
      run_in_background |-> FALSE] :
        a \in BOOLEAN, t \in MinTurns, mode \in Modes}
ModeResults ==
    {[kind |-> "exception"], [kind |-> "timeout"],
     [kind |-> "text", response |-> [form |-> "malformed"]],
     [kind |-> "text",
      response |-> [form |-> "json",
                    dict |-> [outcome |-> PyStr("success"),
                              tags |-> PyStr("debugging")]]]}
Surroundings ==
    [fault_metrics : HookFaults, fault_insights : HookFaults,
     sample_ok : BOOLEAN, has_provider : BOOLEAN, result : ModeResults]
\* the events as the host receives them
Received(events) ==
    [k \in DOMAIN events |->
        [session_id |-> events[k].session_id, outcome |-> events[k].outcome,
         tags |-> events[k].tags]]

InitModes ==
    /\ config \in ModeConfigs
    /\ files = NoFiles
    /\ passes = <<>>
    /\ active_tasks = {}
    /\ emitted = <<>>
    /\ op = NoOp
    /\ loaded = None
    /\ committed = [id \in StorageIds |-> None]
    /\ nSaves = 0
    /\ scan = NoCall
    /\ sample = NoCall
    /\ call \in {[pc |-> "inline", env |-> e, inline |-> None] : e \in Surroundings}

\* the event reaches the inline hook
ModesSessionEnd ==
    /\ passes = <<>>
    /\ \E session_id \in EndingSessions \cup {NoId} :
       \E session \in IF session_id = NoId THEN {NoDir} ELSE Sessions(session_id) :
          HandleSessionEndOf(session_id, session, {call.env.fault_metrics},
                             {call.env.sample_ok}, {call.env.has_provider})
\* mount with run_in_background on, over an empty insights root; what the
\* inline hook left and handed to the host is kept aside
ModesRemount ==
    /\ call.pc = "inline"
    /\ Len(passes) = 1
    /\ Finished(passes[1])
    /\ call' = [call EXCEPT !.pc = "background",
                            !.inline = [files |-> files,
                                        events |-> Received(emitted),
                                        handler |-> passes[1].handler]]
    /\ config' = [config EXCEPT !.run_in_background = TRUE]
    /\ files' = NoFiles
    /\ emitted' = <<>>
    /\ UNCHANGED <<passes, active_tasks, storageVars, scan, sample>>
\* the same event reaches the background hook
ModesSessionEndAgain ==
    /\ call.pc = "background"
    /\ Len(passes) = 1
    /\ HandleSessionEndOf(passes[1].session_id, passes[1].session,
                          {call.env.fault_metrics}, {call.env.sample_ok},
                          {call.env.has_provider})
ModesTaskStart(i) ==
    TaskStartIn(i, {call.env.fault_metrics}, {call.env.sample_ok},
                {call.env.has_provider})
ModesProviderReturn(i) ==
    ProviderReturnOf(i, {call.env.result}, {call.env.fault_insights})

NextModes ==
    \/ ModesSessionEnd
    \/ ModesRemount
    \/ ModesSessionEndAgain
    \/ \E i \in DOMAIN passes : ModesTaskStart(i)
    \/ \E i \in DOMAIN passes : ModesProviderReturn(i)
    \/ \E i \in DOMAIN passes : EmitReturn(i)
    \/ \E i \in DOMAIN passes : DoneCallback(i)

SpecModes == InitModes /\ [][NextModes]_vars

\* ------------------------------------------------------------------ storage
\* the records handed to the two saves in SpecStorage
StoredMetrics == {Metrics(id, MaxTurns, d) : id \in SessionIds, d \in {0, MaxDur}}
StoredInsights ==
    {[session_id |-> id,
      metrics |-> [turn_count |-> MaxTurns, duration_seconds |-> MaxDur],
      outcome |-> o, tags |-> <<>>] : id \in SessionIds, o \in OutcomeTexts}

InitStorage ==
    /\ config = [always_save_metrics |-> TRUE,
                 min_turns_for_metrics |-> 1, min_duration_for_metrics |-> 1,
                 llm_analysis_mode |-> "threshold",
                 min_turns_for_llm_analysis |-> 1, min_duration_for_llm_analysis |-> 1,
                 min_turns_for_analysis |-> 1, min_duration_seconds |-> 1,
                 run_in_background |-> TRUE]
    /\ files = NoFiles
    /\ passes = <<>>
    /\ active_tasks = {}
    /\ emitted = <<>>
    /\ op = NoOp
    /\ loaded = None
    /\ committed = [id \in StorageIds |-> None]
    /\ nSaves = 0
    /\ scan = NoCall
    /\ sample = NoCall
    /\ call = NoCall

\* save_metrics_only(metrics) is called
StSaveMetricsOnly ==
    /\ op.pc = "idle"
    /\ nSaves < MaxSaves
    /\ \E metrics \in StoredMetrics :
        op' = BeginSave(FilePath("metrics", metrics.session_id),
                        JsonDumps(MetricsDict(metrics), MetricsKeys))
    /\ nSaves' = nSaves + 1
    /\ UNCHANGED <<hookVars, extractorVars, files, loaded, committed>>

\* save_insights(insights) is called
StSaveInsights ==
    /\ op.pc = "idle"
    /\ nSaves < MaxSaves
    /\ \E insights \in StoredInsights :
        op' = BeginSave(FilePath("sessions", insights.session_id),
                        JsonDumps(InsightsDict(insights), InsightsKeys))
    /\ nSaves' = nSaves + 1
    /\ UNCHANGED <<hookVars, extractorVars, files, loaded, committed>>

\* the save in progress takes its next file-system step; after replace it
\* returns file_path
StStep ==
    /\ op.pc # "idle"
    /\ LET r == SaveStep(files, op) IN
        /\ files' = r.fs
        /\ IF r.o.pc = "returned"
           THEN /\ op' = [pc |-> "idle", ret |-> "path"]
                /\ committed' =
                      IF op.file_path.dir = "sessions"
                      THEN [committed EXCEPT ![op.file_path.stem] = JsonLoads(op.text)]
                      ELSE committed
           ELSE /\ op' = r.o
                /\ UNCHANGED committed
    /\ UNCHANGED <<hookVars, extractorVars, loaded, nSaves>>

\* the next step of the save raises OSError: caught, None is returned
StOSError ==
    /\ op.pc # "idle"
    /\ op' = [pc |-> "idle", ret |-> "none"]
    /\ UNCHANGED <<hookVars, extractorVars, files, loaded, committed, nSaves>>

\* the process dies with the save where it stands
StCrash ==
    /\ op.pc # "idle"
    /\ op' = [pc |-> "idle", ret |-> "crashed"]
    /\ UNCHANGED <<hookVars, extractorVars, files, loaded, committed, nSaves>>

\* load_insights(session_id), by this or another process, at any moment
StLoadInsights ==
    /\ \E session_id \in SessionIds :
        loaded' = [session_id |-> session_id,
                   result |-> LoadInsights(files, session_id)]
    /\ UNCHANGED <<hookVars, extractorVars, files, op, committed, nSaves>>

NextStorage ==
    \/ StSaveMetricsOnly
    \/ StSaveInsights
    \/ StStep
    \/ StOSError
    \/ StCrash
    \/ StLoadInsights

SpecStorage == InitStorage /\ [][NextStorage]_vars


\* =================================================================== claims
MetricsFile(id) == files[FilePath("metrics", id)]
InsightsFile(id) == files[FilePath("sessions", id)]
InsightsTemp(id) == files[[dir |-> "sessions", stem |-> id, suffix |-> "tmp"]]
InTrace(pass, step) == \E k \in DOMAIN pass.trace : pass.trace[k] = step
EventsOf(i) == {k \in DOMAIN emitted : emitted[k].pass = i}

\* C1 (as claimed): on_session_end never fails: whatever the event, the
\* metadata and the session directory hold, and whatever fails on the analysis
\* path, the handler returns "continue" and no exception reaches the host.
C1_HandlerNeverFails ==
    \A i \in DOMAIN passes : passes[i].handler # "raised"

\* C2: a save interrupted anywhere between the start of the temp-file write
\* and the rename never leaves a final file partially written: every final
\* file holds a complete record that was handed to its save, and
\* load_insights(id) returns the record of the last save_insights(id) that
\* completed (absent if none did), never a partial or mixed one.
C2_AtomicPersistence ==
    /\ \A id \in StorageIds :
          MetricsFile(id).exists =>
              \E m \in StoredMetrics : MetricsFile(id).text =
                                          JsonDumps(MetricsDict(m), MetricsKeys)
    /\ \A id \in StorageIds :
          InsightsFile(id).exists =>
              \E n \in StoredInsights : InsightsFile(id).text =
                                           JsonDumps(InsightsDict(n), InsightsKeys)
    /\ \A id \in StorageIds : LoadInsights(files, id) = committed[id]

\* C2 witness: a save_insights over an existing record died in the middle of
\* write_text (the temporary file holds a proper, non-empty prefix), and
\* load_insights returned the prior record.
C2_CrashMidWrite ==
    \E id \in SessionIds :
        /\ op = [pc |-> "idle", ret |-> "crashed"]
        /\ committed[id] # None
        /\ InsightsTemp(id).exists
        /\ Len(InsightsTemp(id).text) > 0
        /\ ~IsJson(InsightsTemp(id).text)
        /\ loaded = [session_id |-> id, result |-> committed[id]]

\* C36: load_insights(id) returns the record of the last save_insights(id)
\* that succeeded, and absent when none ever did, also when a metrics-only
\* record of id is on disk: what it returns is never a metrics-only envelope.
C36_LoadOnlyInsights ==
    [][loaded' # loaded
        => LET id == loaded'.session_id
               result == loaded'.result
           IN /\ result = committed[id]
              /\ committed[id] = None => result = None
              /\ result # None
                    => /\ "has_llm_analysis" \notin DOMAIN result
                       /\ \E n \in StoredInsights : result = JsonLoads(
                              JsonDumps(InsightsDict(n), InsightsKeys))]_vars

\* C36 witness: load_insights returned absent for a session whose
\* metrics-only record is on disk and for which no save_insights succeeded.
C36_AbsentBesideMetrics ==
    \E id \in SessionIds :
        /\ loaded = [session_id |-> id, result |-> None]
        /\ MetricsFile(id).exists
        /\ ~InsightsFile(id).exists
        /\ committed[id] = None
        /\ op.pc = "idle"

\* C3 (as claimed): the two tiers share one slot per session id: once
\* save_insights has run after save_metrics_only for an id, the metrics-only
\* record is gone, so at most one persisted record exists per session id.
C3_OneRecordPerSessionId ==
    \A id \in StorageIds : ~(MetricsFile(id).exists /\ InsightsFile(id).exists)


\* ---- the session of a pass, read from its artifacts
\* the session has a directory and its metadata gives a turn count (a number,
\* or none at all, which counts as 0)
HasTurnCount(pass) ==
    /\ pass.session_id # NoId
    /\ pass.session.dir_exists
    /\ LET f == pass.session.meta_file IN
          f.state = "json" =>
              /\ f.value.t = "dict"
              /\ f.value.turn_count.t \in {"int", "absent"}
TurnCount(pass) ==
    LET f == pass.session.meta_file IN
    IF f.state = "json" /\ f.value.turn_count.t = "int" THEN f.value.turn_count.v ELSE 0
\* the session also has a readable event log, which gives a duration
HasDuration(pass) == HasTurnCount(pass) /\ pass.session.log.state = "ok"
Duration(pass) == pass.session.log.duration
\* the id the records of the pass are stored under
StorageId(pass) ==
    LET f == pass.session.meta_file IN
    IF f.state = "json" /\ f.value.session_id.t = "str" THEN f.value.session_id.s
    ELSE UnknownId
\* the metrics-only envelope of the session
MetricsText(pass) ==
    JsonDumps([session_id |-> StorageId(pass),
               metrics |-> [turn_count |-> TurnCount(pass),
                            duration_seconds |-> Duration(pass)],
               has_llm_analysis |-> FALSE], MetricsKeys)
ClearsMetricsTier(pass) ==
    /\ TurnCount(pass) >= config.min_turns_for_metrics
    /\ Duration(pass) >= config.min_duration_for_metrics
ClearsLlmTier(pass) ==
    /\ TurnCount(pass) >= config.min_turns_for_llm_analysis
    /\ Duration(pass) >= config.min_duration_for_llm_analysis
ClearsLegacy(pass) ==
    /\ TurnCount(pass) >= config.min_turns_for_analysis
    /\ Duration(pass) >= config.min_duration_seconds
\* no tier-2 step was taken by the pass and nothing of tier 2 exists
NoTierTwo(i) ==
    /\ ~InTrace(passes[i], "sample")
    /\ ~InTrace(passes[i], "provider_call")
    /\ ~InTrace(passes[i], "save_insights")
    /\ ~InTrace(passes[i], "emit")
    /\ passes[i].provider = "not_called"
    /\ passes[i].insights = None
    /\ EventsOf(i) = {}
    /\ \A p \in Paths : p.dir = "sessions" => ~files[p].exists
\* the metrics-only record of the pass is persisted, complete
MetricsPersisted(pass) ==
    /\ MetricsFile(StorageId(pass)).exists
    /\ MetricsFile(StorageId(pass)).text = MetricsText(pass)
NoMetricsPersisted == \A id \in StorageIds : ~MetricsFile(id).exists

C5_InsightsSupersedeMetrics ==
    \A i \in DOMAIN passes :
        ( /\ config.llm_analysis_mode = "threshold"
          /\ passes[i].pc = "done"
          /\ HasDuration(passes[i])
          /\ ClearsMetricsTier(passes[i])
          /\ ClearsLlmTier(passes[i])
          /\ passes[i].provider = "text"
          /\ passes[i].insights # None
          /\ passes[i].metrics_ret \notin {NotCalled, None}
          /\ passes[i].insights_ret \notin {NotCalled, None} )
        => /\ LoadInsights(files, StorageId(passes[i])) # None
           /\ LoadInsights(files, StorageId(passes[i])).outcome = passes[i].insights.outcome
           /\ ~MetricsFile(StorageId(passes[i])).exists
           /\ Cardinality(EventsOf(i)) = 1
           /\ \A k \in EventsOf(i) :
                 /\ emitted[k].session_id = passes[i].session_id
                 /\ emitted[k].outcome = passes[i].insights.outcome

\* C6: when the provider call times out, generate_insights returns absent: the
\* pass ends having saved no insights record and emitted no completion event,
\* and the metrics-only record saved earlier in the pass, if any, is the one
\* persisted artifact, unchanged.
C6_TimeoutLeavesMetricsOnly ==
    \A i \in DOMAIN passes :
        passes[i].provider = "timeout"
        => /\ passes[i].pc = "done"
           /\ passes[i].insights = None
           /\ passes[i].insights_ret = NotCalled
           /\ ~InTrace(passes[i], "save_insights")
           /\ ~InTrace(passes[i], "emit")
           /\ EventsOf(i) = {}
           /\ \A p \in Paths : p.dir = "sessions" => ~files[p].exists
           /\ \A id \in StorageIds \ {StorageId(passes[i])} : ~MetricsFile(id).exists
           /\ IF passes[i].metrics_ret \in {NotCalled, None}
              THEN NoMetricsPersisted
              ELSE MetricsPersisted(passes[i])

\* C6 witness: a pass whose provider call timed out after its metrics-only
\* record was persisted.
C6_TimedOutAfterMetrics ==
    \E i \in DOMAIN passes :
        /\ passes[i].provider = "timeout"
        /\ passes[i].metrics_ret \notin {NotCalled, None}
        /\ MetricsPersisted(passes[i])

C8_OnDemandNeverRuns ==
    config.llm_analysis_mode = "on_demand"
    => /\ emitted = <<>>
       /\ \A i \in DOMAIN passes : NoTierTwo(i)

\* C8 witness: in on_demand mode a pass has ended for a session with the
\* largest turn count and duration, which clear every threshold.
C8_OnDemandLongSession ==
    \E i \in DOMAIN passes :
        /\ config.llm_analysis_mode = "on_demand"
        /\ passes[i].pc = "done"
        /\ HasDuration(passes[i])
        /\ TurnCount(passes[i]) = MaxTurns
        /\ Duration(passes[i]) = MaxDur
        /\ InTrace(passes[i], "extract")

Before(pass, a, b) ==
    \E j, k \in DOMAIN pass.trace :
        j < k /\ pass.trace[j] = a /\ pass.trace[k] = b
\* the metrics-tier minimums do not exceed the minimums of the LLM mode in use
TiersOrdered ==
    /\ config.llm_analysis_mode = "threshold"
       => /\ config.min_turns_for_metrics <= config.min_turns_for_llm_analysis
          /\ config.min_duration_for_metrics <= config.min_duration_for_llm_analysis
    /\ config.llm_analysis_mode = "automatic"
       => /\ config.min_turns_for_metrics <= config.min_turns_for_analysis
          /\ config.min_duration_for_metrics <= config.min_duration_seconds

\* C11 (as claimed): for every configuration, within one analysis pass an
\* insights record is saved only after the metrics-only record of that session
\* was saved in the same pass.
C11_MetricsBeforeInsights ==
    \A i \in DOMAIN passes :
        InTrace(passes[i], "save_insights")
        => Before(passes[i], "save_metrics", "save_insights")

\* C11 (amended): for every configuration in which always_save_metrics is
\* enabled and the metrics-tier minimums do not exceed the minimums of the LLM
\* mode in use, within one analysis pass save_insights is called only after
\* save_metrics_only was called for that session in the same pass (and had
\* persisted the metrics-only record unless that write failed); in every
\* configuration it is called only after the extraction and the provider call.
C11_MetricsBeforeInsightsAmended ==
    \A i \in DOMAIN passes :
        InTrace(passes[i], "save_insights")
        => /\ Before(passes[i], "extract", "save_insights")
           /\ Before(passes[i], "provider_call", "save_insights")
           /\ (config.always_save_metrics /\ TiersOrdered)
              => /\ Before(passes[i], "save_metrics", "save_insights")
                 /\ passes[i].metrics_ret # NotCalled
                 /\ passes[i].metrics_ret # None => MetricsFile(StorageId(passes[i])).exists

\* C11 witness: a pass saved the insights record after the metrics-only record
\* under a configuration whose tiers are ordered.
C11_BothTiersSaved ==
    \E i \in DOMAIN passes :
        /\ config.always_save_metrics
        /\ TiersOrdered
        /\ passes[i].trace = <<"extract", "save_metrics", "sample", "provider_call",
                               "save_insights", "emit">>
        /\ passes[i].insights_ret \notin {NotCalled, None}


\* C12: with run_in_background set, on_session_end has returned when the
\* analysis is spawned and no step of it (log scan, save, provider call, event
\* emission) has run, and the handler call itself changes no file and emits
\* nothing; with it unset, on_session_end has returned only when the whole
\* pass has finished, and nothing of the pass happens after the return.
C12_ExecutionMode ==
    /\ [](config.run_in_background =>
            \A i \in DOMAIN passes :
                /\ passes[i].handler # "running"
                /\ passes[i].pc = "spawned"
                   => /\ passes[i].handler = "continue"
                      /\ passes[i].trace = <<>>
                      /\ passes[i].metrics = None
                      /\ passes[i].metrics_ret = NotCalled
                      /\ passes[i].provider = "not_called"
                      /\ EventsOf(i) = {})
    /\ [](~config.run_in_background =>
            \A i \in DOMAIN passes :
                /\ passes[i].pc # "spawned"
                /\ i \notin active_tasks
                /\ passes[i].handler = "continue" => Finished(passes[i])
                /\ passes[i].pc \in {"await_provider", "await_emit"}
                   => passes[i].handler = "running")
    /\ [][ /\ (config.run_in_background /\ Len(passes') > Len(passes))
              => (files' = files /\ emitted' = emitted)
           /\ ~config.run_in_background
              => \A i \in DOMAIN passes :
                    passes[i].handler # "running"
                    => (passes'[i] = passes[i] /\ files' = files /\ emitted' = emitted)
         ]_vars

\* C12 witness: an inline handler has returned after a whole pass, with both
\* saves and the completion event behind it.
C12_InlineReturnedAfterPass ==
    \E i \in DOMAIN passes :
        /\ ~config.run_in_background
        /\ passes[i].handler = "continue"
        /\ passes[i].trace = <<"extract", "save_metrics", "sample", "provider_call",
                               "save_insights", "emit">>
        /\ EventsOf(i) # {}


\* the analyses that were spawned as tasks, and those of them still running
Spawned == {i \in DOMAIN passes : passes[i].pc \notin {"skipped", "raised"}}
InFlight == {i \in Spawned : ~Finished(passes[i])}

\* C13 (as claimed): in background mode the registry is at every moment
\* exactly the set of spawned analyses that have not yet finished.
C13_RegistryIsInFlight ==
    config.run_in_background => active_tasks = InFlight

\* C13 (amended): in background mode each session-end trigger that gets past
\* the early returns and the turn-count check adds exactly one task to the
\* registry and every other trigger adds none; at every moment the registry
\* holds only spawned analyses and holds every one that has not yet finished;
\* a task leaves the registry only when it has finished (succeeded, failed or
\* cancelled), removed by its done callback, which the event loop runs after
\* the task has completed, so that every finished task is eventually out of
\* the registry and the registry is eventually empty once all analyses have
\* finished.
C13_TaskRegistry ==
    /\ [](config.run_in_background =>
            /\ active_tasks \subseteq Spawned
            /\ InFlight \subseteq active_tasks)
    /\ [][ config.run_in_background =>
            /\ Len(passes') > Len(passes)
               => active_tasks' =
                     active_tasks \cup
                        (IF passes'[Len(passes')].pc = "spawned"
                         THEN {Len(passes')} ELSE {})
            /\ Len(passes') = Len(passes)
               => /\ active_tasks' \subseteq active_tasks
                  /\ \A i \in active_tasks \ active_tasks' : Finished(passes[i])
         ]_vars
    /\ \A i \in 1..MaxTriggers :
          (i \in DOMAIN passes /\ Finished(passes[i])) ~> (i \notin active_tasks)
    /\ (Len(passes) = MaxTriggers /\ InFlight = {}) ~> [](active_tasks = {})

\* C13 witness: a cancelled task has left the registry while another analysis
\* is still in it, waiting for the provider.
C13_CancelledTaskRemoved ==
    \E i, j \in DOMAIN passes :
        /\ passes[i].pc = "cancelled"
        /\ i \notin active_tasks
        /\ passes[j].pc = "await_provider"
        /\ active_tasks = {j}


\* every record persisted for the pass is a complete one: the metrics-only
\* envelope of its metrics, the insights envelope of its insights
RecordsComplete(i) ==
    \A p \in Paths :
        (p.suffix = "json" /\ files[p].exists)
        => /\ p.stem = StorageId(passes[i])
           /\ p.dir = "metrics"
              => /\ passes[i].metrics # None
                 /\ files[p].text = JsonDumps(MetricsDict(passes[i].metrics), MetricsKeys)
           /\ p.dir = "sessions"
              => /\ passes[i].insights # None
                 /\ files[p].text = JsonDumps(InsightsDict(passes[i].insights), InsightsKeys)

\* C14: cancelling an analysis at a suspension point ends it without raising
\* to the host; every persisted record is then a complete one (absent, as
\* before the pass, or the complete record the pass wrote); a pass cancelled
\* during the provider call has saved no insights record and emitted no event;
\* and after the cancellation the pass does nothing more: no save and no
\* completion event.
C14_CleanCancellation ==
    /\ [](\A i \in DOMAIN passes :
            passes[i].pc = "cancelled"
            => /\ passes[i].handler = "continue"
               /\ RecordsComplete(i)
               /\ ~InTrace(passes[i], "save_insights")
                  => /\ EventsOf(i) = {}
                     /\ passes[i].insights = None
                     /\ \A p \in Paths : p.dir = "sessions" => ~files[p].exists
               /\ Cardinality(EventsOf(i)) <= 1)
    /\ [][\A i \in DOMAIN passes :
            passes[i].pc = "cancelled"
            => /\ passes'[i] = passes[i]
               /\ files' = files
               /\ emitted' = emitted]_vars

\* C14 witness: a pass cancelled during the event emission, after its insights
\* record was persisted.
C14_CancelledDuringEmit ==
    \E i \in DOMAIN passes :
        /\ passes[i].pc = "cancelled"
        /\ InTrace(passes[i], "emit")
        /\ passes[i].insights_ret \notin {NotCalled, None}
        /\ files[FilePath("sessions", StorageId(passes[i]))].exists


\* the completion events of the passes stored under the id, in the order of
\* their save_insights calls (each save is followed by its emit call)
SavesOf(id) ==
    {k \in DOMAIN emitted : StorageId(passes[emitted[k].pass]) = id}
LastSaveOf(id) == CHOOSE k \in SavesOf(id) : \A m \in SavesOf(id) : m <= k
\* the same session:end event delivered twice
Duplicates(i, j) ==
    /\ i # j
    /\ passes[i].session_id = passes[j].session_id
    /\ passes[i].session = passes[j].session

\* C15: there is no deduplication: when session:end is delivered twice for the
\* same session id in background mode, each delivery that passes the early
\* checks gets its own task and its own analysis, with at most one provider
\* call and at most one completion event each; and at every moment the
\* persisted insights record of an id is the complete record written by the
\* save_insights that ran last for it (none if none ran).
C15_NoDeduplication ==
    /\ \A i, j \in DOMAIN passes :
          (Duplicates(i, j) /\ passes[i].pc \notin {"skipped", "raised"})
          => /\ {i, j} \subseteq Spawned
             /\ InFlight \cap {i, j} \subseteq active_tasks
             /\ Cardinality(EventsOf(i)) <= 1
             /\ Cardinality(EventsOf(j)) <= 1
             /\ EventsOf(i) \cap EventsOf(j) = {}
             /\ Cardinality({k \in DOMAIN passes[i].trace :
                               passes[i].trace[k] = "provider_call"}) <= 1
    /\ \A id \in StorageIds :
          IF SavesOf(id) = {}
          THEN ~InsightsFile(id).exists
          ELSE /\ InsightsFile(id).exists
               /\ InsightsFile(id).text =
                     JsonDumps(InsightsDict(passes[emitted[LastSaveOf(id)].pass].insights),
                               InsightsKeys)

\* C15 witness: the event of one session was delivered twice, both analyses
\* saved and emitted, with different outcomes; the analysis of the first
\* delivery saved last and its record is the one persisted.
C15_FirstDeliverySavedLast ==
    /\ Len(passes) >= 2
    /\ Duplicates(1, 2)
    /\ Len(emitted) = 2
    /\ emitted[1].pass = 2
    /\ emitted[2].pass = 1
    /\ emitted[1].outcome # emitted[2].outcome
    /\ LoadInsights(files, StorageId(passes[1])) # None
    /\ LoadInsights(files, StorageId(passes[1])).outcome = emitted[2].outcome


\* C16: under every interleaving of background analyses of distinct session
\* ids, the records persisted for a session id are those its own analysis
\* wrote, as when it runs alone: the metrics-only record and the insights
\* record found under its id are the ones that analysis saved, whatever the
\* analyses of other session ids have saved since.
C16_DistinctIdsIndependent ==
    \A i \in DOMAIN passes :
        (\A j \in DOMAIN passes \ {i} : passes[j].session_id # passes[i].session_id)
        => /\ passes[i].metrics_ret \notin {NotCalled, None}
              => /\ MetricsFile(StorageId(passes[i])).exists
                 /\ MetricsFile(StorageId(passes[i])).text =
                       JsonDumps(MetricsDict(passes[i].metrics), MetricsKeys)
           /\ passes[i].insights_ret \notin {NotCalled, None}
              => /\ InsightsFile(StorageId(passes[i])).exists
                 /\ InsightsFile(StorageId(passes[i])).text =
                       JsonDumps(InsightsDict(passes[i].insights), InsightsKeys)
           /\ \A k \in EventsOf(i) : emitted[k].session_id = passes[i].session_id


\* ------------------------------------------------------- the event-log scan
\* extract_metrics line by line: the loop over events.jsonl and the duration
\* computed after it.  ExtractMetrics above is this scan with the log reduced
\* to its outcome.
\* the "ts" field of an event: none, an ISO-8601 text `v` seconds after the
\* session's start, a text that is no ISO-8601 timestamp, or a number
NoTs == [t |-> "absent"]
TsIso(v) == [t |-> "iso", v |-> v]
TsText == [t |-> "text"]
TsNumber == [t |-> "number"]
TsValues == {NoTs, TsIso(0), TsIso(MaxDur), TsText, TsNumber}
NoneTs == [t |-> "none"]
\* the "usage" field of an event's data: none, or token counts
Usage(input, output) == [t |-> "dict", input |-> input, output |-> output]
\* a line that parses to a JSON object; `data` tells whether its "data" field
\* is an object, `lvl` is the event's "lvl" field
Event(ts, event, data, tool_name) ==
    [kind |-> "event", ts |-> ts, event |-> event, data |-> data,
     tool_name |-> tool_name, lvl |-> PyAbsent, usage |-> PyAbsent]
\* the lines of a log: blank, not JSON, JSON but no object, bytes that do not
\* decode as text, and events
LogLines ==
    {[kind |-> k] : k \in {"blank", "malformed", "not_object", "undecodable"}}
    \cup {Event(ts, "session:start", "object", PyAbsent) : ts \in TsValues}
    \cup {Event(NoTs, "tool:post", "object", n) :
            n \in {PyAbsent, PyStr("bash"), PyStr("read_file")}}
    \cup {Event(NoTs, "tool:post", "other", PyAbsent)}
Logs == UNION {[1..n -> LogLines] : n \in 0..MaxLines}
ToolNames == {"bash", "read_file", "unknown"}

\* the locals of extract_metrics before the loop
BeginScan(log, max_events_to_process) ==
    [pc |-> "loop", log |-> log, max_events_to_process |-> max_events_to_process,
     pos |-> 0, event_count |-> 0,
     tool_usage |-> [n \in ToolNames |-> 0],
     errors |-> 0, llm_requests |-> 0, input_tokens |-> 0, output_tokens |-> 0,
     first_ts |-> NoneTs, last_ts |-> NoneTs,
     duration_seconds |-> 0, error |-> "none"]
\* an exception that extract_metrics does not catch
Raise(s, error) == [s EXCEPT !.pc = "raised", !.error = error]

\* tool_usage[tool_name] += 1 for named tools only
CountNamedTool(tool_usage, tool_name) ==
    IF tool_name.t = "absent" THEN tool_usage
    ELSE [tool_usage EXCEPT ![tool_name.s] = @ + 1]
\* tool_usage[tool_name] = tool_usage.get(tool_name, 0) + 1, the name
\* defaulting to "unknown"
CountTool(tool_usage, tool_name) ==
    LET name == IF tool_name.t = "absent" THEN "unknown" ELSE tool_name.s
    IN [tool_usage EXCEPT ![name] = @ + 1]

\* `if ts:` and the two assignments
TrackTimestamp(s, ts) ==
    IF ts = NoTs THEN s
    ELSE [s EXCEPT !.first_ts = IF @ = NoneTs THEN ts ELSE @,
                   !.last_ts = ts]

\* llm_requests += 1 and the two token sums, a missing usage or count being 0
TrackLlmUsage(s, usage) ==
    [s EXCEPT !.llm_requests = @ + 1,
              !.input_tokens = @ + (IF usage = PyAbsent THEN 0 ELSE usage.input),
              !.output_tokens = @ + (IF usage = PyAbsent THEN 0 ELSE usage.output)]

\* the last two branches of the chain: an error kind, or else "lvl" == "ERROR"
IsErrorEvent(line) ==
    IF line.event \in {"tool:error", "llm:error"} THEN TRUE
    ELSE line.lvl = PyStr("ERROR")

\* the code after the loop: first_ts.replace and fromisoformat, then the same
\* for last_ts; ValueError and TypeError leave the duration at 0, the
\* AttributeError of a number's missing .replace is not caught
Finish(s) ==
    IF s.first_ts = NoneTs \/ s.last_ts = NoneTs
    THEN [s EXCEPT !.pc = "returned"]
    ELSE IF s.first_ts.t = "number" THEN Raise(s, "AttributeError")
    ELSE IF s.first_ts.t = "text" THEN [s EXCEPT !.pc = "returned"]
    ELSE IF s.last_ts.t = "number" THEN Raise(s, "AttributeError")
    ELSE IF s.last_ts.t = "text" THEN [s EXCEPT !.pc = "returned"]
    ELSE [s EXCEPT !.pc = "returned",
                   !.duration_seconds = s.last_ts.v - s.first_ts.v]

\* one turn of `for line in f`: the file gives the next line (decoding it),
\* then the cap is tested, then the line is examined
ScanStep(s) ==
    IF s.pos = Len(s.log) THEN Finish(s)
    ELSE
    LET line == s.log[s.pos + 1] IN
    IF line.kind = "undecodable" THEN Raise(s, "UnicodeDecodeError")
    ELSE IF s.event_count >= s.max_events_to_process THEN Finish(s)
    ELSE
    LET s1 == [s EXCEPT !.pos = @ + 1, !.event_count = @ + 1] IN
    IF line.kind \in {"blank", "malformed"} THEN s1
    ELSE IF line.kind = "not_object" THEN Raise(s1, "AttributeError")
    ELSE
    LET s2 == TrackTimestamp(s1, line.ts) IN
    IF line.event = "tool:post"
    THEN IF line.data # "object" THEN Raise(s2, "AttributeError")
         ELSE [s2 EXCEPT !.tool_usage = CountTool(@, line.tool_name)]
    ELSE IF line.event = "llm:response"
    THEN IF line.data # "object" THEN Raise(s2, "AttributeError")
         ELSE TrackLlmUsage(s2, line.usage)
    ELSE IF IsErrorEvent(line) THEN [s2 EXCEPT !.errors = @ + 1]
    ELSE s2

\* the whole call
RECURSIVE RunScan(_)
RunScan(s) == IF s.pc # "loop" THEN s ELSE RunScan(ScanStep(s))

InitScan ==
    /\ config = ConcurrentConfig
    /\ files = NoFiles
    /\ passes = <<>>
    /\ active_tasks = {}
    /\ emitted = <<>>
    /\ op = NoOp
    /\ loaded = None
    /\ committed = [id \in StorageIds |-> None]
    /\ nSaves = 0
    /\ scan \in {BeginScan(log, cap) : log \in Logs, cap \in 1..MaxCap}
    /\ sample = NoCall
    /\ call = NoCall

ScanNext ==
    /\ scan.pc = "loop"
    /\ scan' = ScanStep(scan)
    /\ UNCHANGED <<hookVars, files, storageVars, sample, call>>

SpecScan == InitScan /\ [][ScanNext]_vars

\* ---- the scan, read from the log
Min(a, b) == IF a < b THEN a ELSE b
\* the lines within the processing cap
Examined(s) == SubSeq(s.log, 1, Min(Len(s.log), s.max_events_to_process))
\* what a finished scan hands back
Outcome(s) ==
    [pc |-> s.pc, duration_seconds |-> s.duration_seconds,
     tool_usage |-> s.tool_usage, started_at |-> s.first_ts, ended_at |-> s.last_ts]

\* C17: for an event log of N records, a finished extract_metrics has examined
\* exactly min(N, max_events_to_process) records, and its result is the result
\* for the log cut after the cap: it does not depend on any record beyond it.
C17_BoundedScan ==
    scan.pc \in {"returned", "raised"}
    => /\ Outcome(scan) =
             Outcome(RunScan(BeginScan(Examined(scan), scan.max_events_to_process)))
       /\ scan.pc = "returned" => scan.event_count = Len(Examined(scan))


IsStamped(line) == line.kind = "event" /\ line.ts # NoTs
\* the timestamped records among those examined
Stamped(s) == SelectSeq(Examined(s), IsStamped)
\* every line examined is blank, not JSON, or an event whose data is an object
PlainLog(s) ==
    /\ \A k \in DOMAIN s.log : s.log[k].kind # "undecodable"
    /\ \A k \in DOMAIN Examined(s) :
          /\ s.log[k].kind # "not_object"
          /\ s.log[k].kind = "event" => s.log[k].data = "object"

\* C18: for any record stream, extract_metrics returns metrics whose
\* duration_seconds is the timestamp of the last timestamped record scanned
\* minus that of the first when both parse as ISO-8601, 0 when fewer than two
\* timestamped records were scanned, and 0 when either timestamp fails to
\* parse.
C18_Duration ==
    (scan.pc \in {"returned", "raised"} /\ PlainLog(scan))
    => LET stamped == Stamped(scan)
           first == stamped[1].ts
           last == stamped[Len(stamped)].ts
       IN /\ scan.pc = "returned"
          /\ scan.duration_seconds =
                IF Len(stamped) < 2 THEN 0
                ELSE IF first.t = "iso" /\ last.t = "iso" THEN last.v - first.v
                ELSE 0


\* the tool-completion records among those examined
ToolPosts(s) ==
    {k \in DOMAIN Examined(s) :
        s.log[k].kind = "event" /\ s.log[k].event = "tool:post"}
TotalCount(tool_usage) ==
    tool_usage["bash"] + tool_usage["read_file"] + tool_usage["unknown"]

\* C19: during the scan no tool's count ever decreases, and when
\* extract_metrics returns, the sum of all per-tool counts is the number of
\* 'tool:post' records among the records examined within the processing cap.
C19_ToolUsageCounters ==
    /\ [](scan.pc = "returned"
            => /\ TotalCount(scan.tool_usage) = Cardinality(ToolPosts(scan))
               /\ TotalCount(scan.tool_usage) <= scan.max_events_to_process)
    /\ [][scan.pc = "loop"
            => \A n \in ToolNames : scan'.tool_usage[n] >= scan.tool_usage[n]]_vars

\* C19 witness: a scan returned with as many completions counted as the cap
\* allows, one of them for a tool without a name, and a further completion
\* beyond the cap ignored.
C19_CountedWithinCap ==
    /\ scan.pc = "returned"
    /\ Len(scan.log) > scan.max_events_to_process
    /\ scan.log[Len(scan.log)].kind = "event"
    /\ scan.log[Len(scan.log)].event = "tool:post"
    /\ scan.tool_usage["unknown"] = 1
    /\ TotalCount(scan.tool_usage) = scan.max_events_to_process




\* the counters a scan has accumulated
Counters(s) ==
    [tool_usage |-> s.tool_usage, errors |-> s.errors,
     llm_requests |-> s.llm_requests, input_tokens |-> s.input_tokens,
     output_tokens |-> s.output_tokens]
\* a line that json.loads accepts after decoding
IsParseable(line) == line.kind \notin {"malformed", "undecodable", "blank"}
\* every line that parses is an event the loop body handles without raising
HandledWhenParsed(s) ==
    \A k \in DOMAIN s.log :
        /\ s.log[k].kind # "not_object"
        /\ s.log[k].kind = "event"
              => s.log[k].data = "object" /\ s.log[k].ts.t # "number"

\* C32: an unparseable line of the event log never aborts the scan or fails
\* the extraction: extract_metrics returns, and its counters are those of the
\* parseable records among the examined ones, every record after the
\* unparseable line and within the cap included.
C32_MalformedSkipped ==
    (scan.pc \in {"returned", "raised"} /\ HandledWhenParsed(scan))
    => /\ scan.pc = "returned"
       /\ Counters(scan) =
             Counters(RunScan(BeginScan(SelectSeq(Examined(scan), IsParseable),
                                        scan.max_events_to_process)))

\* ---- logs of error and model records
\* an event carrying "lvl": "ERROR"
AtErrorLevel(e) == [e EXCEPT !.lvl = PyStr("ERROR")]
\* an llm:response event with token counts
WithUsage(e, usage) == [e EXCEPT !.usage = usage]
CountLines ==
    {[kind |-> k] : k \in {"blank", "malformed"}}
    \cup {Event(NoTs, kind, "object", PyAbsent) :
            kind \in {"session:start", "tool:error", "llm:error"}}
    \cup {AtErrorLevel(Event(NoTs, kind, "object", PyAbsent)) :
            kind \in {"session:start", "tool:error", "llm:response"}}
    \cup {AtErrorLevel(Event(NoTs, "tool:post", "object", PyStr("bash"))),
          WithUsage(Event(NoTs, "llm:response", "object", PyAbsent), Usage(1, 2))}
CountLogs == UNION {[1..n -> CountLines] : n \in 0..MaxLines}

InitCount ==
    /\ config = ConcurrentConfig
    /\ files = NoFiles
    /\ passes = <<>>
    /\ active_tasks = {}
    /\ emitted = <<>>
    /\ op = NoOp
    /\ loaded = None
    /\ committed = [id \in StorageIds |-> None]
    /\ nSaves = 0
    /\ scan \in {BeginScan(log, cap) : log \in CountLogs, cap \in 1..MaxCap}
    /\ sample = NoCall
    /\ call = NoCall

SpecCount == InitCount /\ [][ScanNext]_vars

\* the examined records with an error kind or flagged at error severity
ErrorRecords(s) ==
    {k \in DOMAIN Examined(s) :
        /\ s.log[k].kind = "event"
        /\ \/ s.log[k].event \in {"tool:error", "llm:error"}
           \/ s.log[k].lvl = PyStr("ERROR")}

\* C31: the error counter goes up by one for every examined record that has
\* an error kind (tool error or model error) or is flagged at error severity,
\* whatever its event kind, and by nothing else: when extract_metrics returns,
\* the error count is the number of examined records satisfying either
\* condition.
C31_ErrorCounting ==
    scan.pc = "returned" => scan.errors = Cardinality(ErrorRecords(scan))

\* ------------------------------------------------- the conversation sample
\* _format_conversation_sample on a message list.  A text is a sequence of
\* characters; the sample is the list `parts`, joined with newlines on return.
Texts ==
    {<<"a", "a", "a", "a", " ", "a", "a", "a", "a", " ", "a", "a">>,
     <<"a", "a", "a", "a", "a", "a", "a", "a">>}
Roles == {"user"}
Conversations ==
    UNION {[1..n -> [role : Roles, content : Texts]] : n \in 0..MaxMessages}
Ellipsis == <<".", ".", ".">>

Max(a, b) == IF a > b THEN a ELSE b
\* text[:k], k negative counting from the end
Slice(text, k) ==
    IF k >= 0 THEN SubSeq(text, 1, Min(k, Len(text)))
    ELSE SubSeq(text, 1, Max(Len(text) + k, 0))
\* text.rfind(" "): the 0-based index of the last space, -1 without one
RFind(text) ==
    LET at == {k \in DOMAIN text : text[k] = " "}
    IN IF at = {} THEN -1 ELSE (CHOOSE k \in at : \A m \in at : m <= k) - 1

\* _truncate: the text if it fits, else its first max_len characters, cut back
\* to the last space if that is past 0.7 * max_len, then "..."
Truncate(text, max_len) ==
    IF Len(text) <= max_len THEN text
    ELSE LET truncated == Slice(text, max_len)
             last_space == RFind(truncated)
         IN (IF 10 * last_space > 7 * max_len
             THEN Slice(truncated, last_space) ELSE truncated) \o Ellipsis

\* the parts: section headers, message lines "[role]: text", the total line
Header(name) == [kind |-> "header", name |-> name]
MessageLine(role, text) == [kind |-> "message", role |-> role, text |-> text]
TotalLine(n) == [kind |-> "total", n |-> n]
RECURSIVE SumLen(_)
SumLen(texts) == IF texts = <<>> THEN 0 ELSE Len(Head(texts)) + SumLen(Tail(texts))

\* a recent section from the fourth message on
HasRecentFromFour(n) == n >= 4
\* `if n > 4`: the conversation is long enough for a recent section
HasRecent(n) == n > 4
\* `if n > 10`: the conversation is long enough for a middle section
HasMiddle(n) == n > 10

\* every probe that is an index of the list
InInteriorAnywhere(i, n) == 0 <= i /\ i < n
\* `if 4 <= i < n - 4`: the probe is past the opening and before the last four
InInterior(i, n) == 4 <= i /\ i < n - 4

\* the last six messages, whatever the opening showed
RecentCountOfSix(n) == Min(6, n)
\* `messages[-min(6, n - 4):]`: how many messages the recent section lists
RecentCount(n) == Min(6, n - 4)

\* the returned parts for a non-empty list
FormatParts(messages, max_chars) ==
    LET n == Len(messages)
        char_budget == max_chars
        each == Min(400, char_budget \div 4)
        opening == [k \in 1..Min(4, n) |->
                        MessageLine(messages[k].role, Truncate(messages[k].content, each))]
        chars_used == SumLen([k \in 1..Min(4, n) |-> opening[k].text])
        mid_budget == (char_budget - chars_used) \div 3
        indices == <<n \div 4, n \div 2, (3 * n) \div 4>>
        picked == SelectSeq(indices, LAMBDA i : InInterior(i, n))
        middle == [k \in 1..Len(picked) |->
                      MessageLine(messages[picked[k] + 1].role,
                                  Truncate(messages[picked[k] + 1].content,
                                           Min(300, mid_budget \div 3)))]
        last == RecentCount(n)
        recent == [k \in 1..last |->
                      MessageLine(messages[n - last + k].role,
                                  Truncate(messages[n - last + k].content, each))]
    IN <<Header("=== Opening ===")>> \o opening
       \o (IF HasMiddle(n) THEN <<Header("\n=== Middle (sampled) ===")>> \o middle
           ELSE <<>>)
       \o (IF HasRecent(n) THEN <<Header("\n=== Recent ===")>> \o recent ELSE <<>>)
       \o <<TotalLine(n)>>

\* _format_conversation_sample
FormatConversationSample(messages, max_chars) ==
    IF messages = <<>> THEN <<Header("[No messages]")>>
    ELSE FormatParts(messages, max_chars)

\* len() of the returned string: the parts and the newlines between them
HeaderLen(name) ==
    CASE name = "=== Opening ===" -> 15
      [] name = "\n=== Middle (sampled) ===" -> 25
      [] name = "\n=== Recent ===" -> 15
      [] name = "[No messages]" -> 13
RoleLen(role) == CASE role = "user" -> 4 [] role = "assistant" -> 9
PartLen(part) ==
    CASE part.kind = "header" -> HeaderLen(part.name)
      [] part.kind = "message" -> 1 + RoleLen(part.role) + 3 + Len(part.text)
      [] part.kind = "total" -> 9 + (IF part.n < 10 THEN 1 ELSE 2) + 10
RECURSIVE JoinedLen(_)
JoinedLen(parts) ==
    IF Len(parts) = 1 THEN PartLen(parts[1])
    ELSE PartLen(Head(parts)) + 1 + JoinedLen(Tail(parts))

InitSample ==
    /\ config = ConcurrentConfig
    /\ files = NoFiles
    /\ passes = <<>>
    /\ active_tasks = {}
    /\ emitted = <<>>
    /\ op = NoOp
    /\ loaded = None
    /\ committed = [id \in StorageIds |-> None]
    /\ nSaves = 0
    /\ scan = NoCall
    /\ sample \in {[pc |-> "called", messages |-> m, max_chars |-> c, parts |-> <<>>] :
                      m \in Conversations, c \in 0..MaxChars}
    /\ call = NoCall

FormatReturn ==
    /\ sample.pc = "called"
    /\ sample' = [sample EXCEPT
                     !.pc = "returned",
                     !.parts = FormatConversationSample(sample.messages, sample.max_chars)]
    /\ UNCHANGED <<hookVars, files, storageVars, scan, call>>

SpecSample == InitSample /\ [][FormatReturn]_vars

\* C20: for every message list and every max_chars, the length of the string
\* the conversation sampler returns exceeds max_chars by no more than the
\* length of one truncation marker ("...").
C20_BoundedSample ==
    sample.pc = "returned"
    => JoinedLen(sample.parts) <= sample.max_chars + Len(Ellipsis)

\* the text is the content, or a cut of it followed by the truncation marker
IsCutOf(text, content) ==
    \/ text = content
    \/ \E k \in 0..Len(content) : text = SubSeq(content, 1, k) \o Ellipsis

\* C21: for a conversation of N messages with 1 <= N <= 4, the sample is the
\* 'Opening' header, then one line per message, all N of them in order (each
\* with its role and its content, whole or truncated), then the total-count
\* marker, and it has no 'Middle' and no 'Recent' section.
C21_ShortConversation ==
    (sample.pc = "returned" /\ Len(sample.messages) \in 1..4)
    => LET n == Len(sample.messages) IN
       /\ Len(sample.parts) = n + 2
       /\ sample.parts[1] = [kind |-> "header", name |-> "=== Opening ==="]
       /\ \A k \in 1..n :
             /\ sample.parts[k + 1].kind = "message"
             /\ sample.parts[k + 1].role = sample.messages[k].role
             /\ IsCutOf(sample.parts[k + 1].text, sample.messages[k].content)
       /\ sample.parts[n + 2] = [kind |-> "total", n |-> n]
       /\ \A k \in DOMAIN sample.parts : sample.parts[k].kind = "header" => k = 1

\* C21 witness: a sample was returned for four messages that are not all the
\* same text.
C21_FourMessages ==
    /\ sample.pc = "returned"
    /\ Len(sample.messages) = 4
    /\ sample.messages[1].content # sample.messages[4].content
    /\ Len(sample.parts) = 6

\* the message lines of the section under the header `name`
HeaderAt(parts, name) ==
    CHOOSE k \in DOMAIN parts : parts[k] = [kind |-> "header", name |-> name]
SectionLines(parts, name) ==
    LET h == HeaderAt(parts, name)
        end == CHOOSE k \in (h + 1)..Len(parts) :
                  /\ parts[k].kind # "message"
                  /\ \A j \in (h + 1)..(k - 1) : parts[j].kind = "message"
    IN SubSeq(parts, h + 1, end - 1)
HasSection(parts, name) ==
    \E k \in DOMAIN parts : parts[k] = [kind |-> "header", name |-> name]
\* line k of `lines` shows message number index[k] (0-based) of the list
ShowsMessages(lines, index, messages) ==
    /\ Len(lines) = Len(index)
    /\ \A k \in DOMAIN lines :
          /\ lines[k].role = messages[index[k] + 1].role
          /\ IsCutOf(lines[k].text, messages[index[k] + 1].content)

\* C33: the sample of N messages has a 'Middle' section only when N > 10,
\* and the section's lines are, in order, the messages at those of the probe
\* indices floor(N/4), floor(N/2), floor(3N/4) that satisfy 4 <= i < N-4: no
\* message of the first four or of the last four is shown in it.
C33_MiddleSection ==
    (sample.pc = "returned" /\ sample.messages # <<>>)
    => LET n == Len(sample.messages)
           probes == <<n \div 4, n \div 2, (3 * n) \div 4>>
           inner == SelectSeq(probes, LAMBDA i : 4 <= i /\ i < n - 4)
           name == "\n=== Middle (sampled) ==="
       IN /\ HasSection(sample.parts, name) <=> n > 10
          /\ HasSection(sample.parts, name)
                => ShowsMessages(SectionLines(sample.parts, name), inner,
                                 sample.messages)

\* C33 witness: a sample of eleven messages was returned whose middle section
\* shows the sixth message alone, that message differing from the third and
\* the ninth, which the other two probes point at.
C33_ElevenMessages ==
    /\ sample.pc = "returned"
    /\ Len(sample.messages) = 11
    /\ sample.messages[6].content # sample.messages[3].content
    /\ sample.messages[6].content # sample.messages[9].content
    /\ Len(SectionLines(sample.parts, "\n=== Middle (sampled) ===")) = 1

\* the 0-based indices a, a+1, ..., b-1
Range(a, b) == [k \in 1..(b - a) |-> a + k - 1]

\* C34: for every N > 4 the 'Recent' section lists the last min(6, N-4)
\* messages, none of which is among the first four that 'Opening' lists; for
\* 5 <= N <= 10 the two sections are the whole sample and together list
\* every message exactly once, in order.
C34_OpeningRecentDisjoint ==
    (sample.pc = "returned" /\ Len(sample.messages) > 4)
    => LET n == Len(sample.messages)
           count == IF n - 4 < 6 THEN n - 4 ELSE 6
           opening == SectionLines(sample.parts, "=== Opening ===")
           recent == SectionLines(sample.parts, "\n=== Recent ===")
       IN /\ HasSection(sample.parts, "\n=== Recent ===")
          /\ ShowsMessages(opening, Range(0, 4), sample.messages)
          /\ ShowsMessages(recent, Range(n - count, n), sample.messages)
          /\ n - count >= 4
          /\ n <= 10
                => /\ ShowsMessages(opening \o recent, Range(0, n), sample.messages)
                   /\ Len(sample.parts) = n + 3

\* C34 witness: a sample of seven messages was returned whose recent section
\* lists three messages, the fourth and the fifth message of the
\* conversation differing.
C34_SevenMessages ==
    /\ sample.pc = "returned"
    /\ Len(sample.messages) = 7
    /\ sample.messages[4].content # sample.messages[5].content
    /\ Len(SectionLines(sample.parts, "\n=== Recent ===")) = 3

\* C22: when no provider is registered, generate_insights returns absent
\* without issuing a completion request: the pass ends with no provider call
\* made, no insights record saved and no completion event emitted.
C22_ProviderUnavailable ==
    \A i \in DOMAIN passes :
        passes[i].providers = "none"
        => /\ Finished(passes[i])
           /\ passes[i].provider = "none_registered"
           /\ ~InTrace(passes[i], "provider_call")
           /\ passes[i].insights = None
           /\ passes[i].insights_ret = NotCalled
           /\ ~InTrace(passes[i], "save_insights")
           /\ ~InTrace(passes[i], "emit")
           /\ EventsOf(i) = {}
           /\ \A p \in Paths : p.dir = "sessions" => ~files[p].exists

\* C22 witness: a pass found no provider after its metrics-only record was
\* persisted and the conversation sample was built.
C22_NoProviderAfterMetrics ==
    \E i \in DOMAIN passes :
        /\ passes[i].providers = "none"
        /\ passes[i].trace = <<"extract", "save_metrics", "sample">>
        /\ MetricsPersisted(passes[i])

\* ------------------------------------------------------ response decoding
\* _parse_response on the text of a provider response, and what
\* generate_insights does with its result.  A response is a sequence of tokens:
\*   "{"  "}"   a brace outside any string
\*   "m"        a member with a scalar value, e.g. "outcome": "success"
\*   "m}"       a member whose string value holds a closing brace,
\*              e.g. "summary": "fixed the } bug"
\*   "k:"       a key and its colon, to be followed by a value
\*   "n"        a number
\*   "w"        prose without braces
\* (the commas between members are part of the member tokens)
MaxTokens == 5
Tokens == {"{", "}", "m", "m}", "k:", "n", "w"}
ResponseTexts == UNION {[1..n -> Tokens] : n \in 1..MaxTokens}
JSONDecodeError == [t |-> "JSONDecodeError"]

\* the JSON grammar: the position after the value that starts at pos, 0 if
\* there is none
RECURSIVE ParseValue(_, _), ParseMembers(_, _)
ParseValue(text, pos) ==
    IF pos > Len(text) THEN 0
    ELSE IF text[pos] = "n" THEN pos + 1
    ELSE IF text[pos] = "{" THEN ParseMembers(text, pos + 1)
    ELSE 0
ParseMembers(text, pos) ==
    IF pos > Len(text) THEN 0
    ELSE IF text[pos] = "}" THEN pos + 1
    ELSE IF text[pos] \in {"m", "m}"} THEN ParseMembers(text, pos + 1)
    ELSE IF text[pos] = "k:"
         THEN LET after == ParseValue(text, pos + 1)
              IN IF after = 0 THEN 0 ELSE ParseMembers(text, after)
    ELSE 0

\* braces open before position i
Depth(text, i) ==
    Cardinality({k \in 1..(i - 1) : text[k] = "{"})
    - Cardinality({k \in 1..(i - 1) : text[k] = "}"})
\* json.loads(text): the value of a text that is one JSON value and nothing
\* else (a number, or a dict with the keys of its own members), or
\* JSONDecodeError
JsonLoadsText(text) ==
    IF text = <<>> \/ ParseValue(text, 1) # Len(text) + 1 THEN JSONDecodeError
    ELSE IF text = <<"n">> THEN [t |-> "number"]
    ELSE [t |-> "dict",
          keys |-> {text[i] : i \in {k \in DOMAIN text :
                                        /\ text[k] \in {"m", "m}", "k:"}
                                        /\ Depth(text, k) = 1}}]

\* re.search(r"\{[^{}]*\}", response, re.DOTALL): the leftmost opening brace
\* whose next brace character is a closing one, up to that character; the
\* closing character of a "m}" token ends the match inside the string
BraceTokens == {"{", "}", "m}"}
ReSearch(response) ==
    LET starts == {i \in DOMAIN response :
                      /\ response[i] = "{"
                      /\ \E j \in (i + 1)..Len(response) :
                            /\ response[j] \in {"}", "m}"}
                            /\ \A k \in (i + 1)..(j - 1) : response[k] \notin BraceTokens}
    IN IF starts = {} THEN None
       ELSE LET i == CHOOSE s \in starts : \A o \in starts : s <= o
                j == CHOOSE e \in (i + 1)..Len(response) :
                        /\ response[e] \in BraceTokens
                        /\ \A k \in (i + 1)..(e - 1) : response[k] \notin BraceTokens
            IN [from |-> i, to |-> j, cut |-> response[j] = "m}"]
\* json_match.group(): a match that ends inside a string is not JSON
MatchLoads(response, match) ==
    IF match.cut THEN JSONDecodeError
    ELSE JsonLoadsText(SubSeq(response, match.from, match.to))

\* _parse_response: the value of the match if there is a match, else the value
\* of the whole response; None on JSONDecodeError
ParseResponseText(response) ==
    LET json_match == ReSearch(response)
        value == IF json_match # None THEN MatchLoads(response, json_match)
                 ELSE JsonLoadsText(response)
    IN IF value = JSONDecodeError THEN None ELSE value

\* generate_insights after _parse_response: None on a falsy result, else the
\* result.get calls, which a number does not have
Falsy(value) == value = None \/ (value.t = "dict" /\ value.keys = {})
GenerateFromResult(result) ==
    IF Falsy(result) THEN [pc |-> "returned", insights |-> None]
    ELSE IF result.t # "dict" THEN [pc |-> "raised", insights |-> None]
    ELSE [pc |-> "returned",
          insights |-> [outcome |-> IF "m" \in result.keys THEN "success"
                                    ELSE "unknown"]]

InitParse ==
    /\ config = ConcurrentConfig
    /\ files = NoFiles
    /\ passes = <<>>
    /\ active_tasks = {}
    /\ emitted = <<>>
    /\ op = NoOp
    /\ loaded = None
    /\ committed = [id \in StorageIds |-> None]
    /\ nSaves = 0
    /\ scan = NoCall
    /\ sample = NoCall
    /\ call \in {[pc |-> "parse", response |-> r, result |-> None, insights |-> None] :
                    r \in ResponseTexts}

\* result = self._parse_response(response)
ParseReturn ==
    /\ call.pc = "parse"
    /\ call' = [call EXCEPT !.pc = "parsed",
                            !.result = ParseResponseText(call.response)]
    /\ UNCHANGED <<hookVars, files, storageVars, scan, sample>>

\* the rest of generate_insights
GenerateReturn ==
    /\ call.pc = "parsed"
    /\ LET r == GenerateFromResult(call.result)
       IN call' = [call EXCEPT !.pc = r.pc, !.insights = r.insights]
    /\ UNCHANGED <<hookVars, files, storageVars, scan, sample>>

NextParse ==
    \/ ParseReturn
    \/ GenerateReturn

SpecParse == InitParse /\ [][NextParse]_vars

\* ---- the response, read from its text
\* the first attempt of the decoding: the brace-delimited text located by the
\* pattern search, parsed
FirstAttempt(response) ==
    IF ReSearch(response) = None THEN JSONDecodeError
    ELSE MatchLoads(response, ReSearch(response))

\* C23 (as claimed): the parser first parses the brace-delimited object found
\* by the pattern search; if that fails (no match, or the match is not valid
\* JSON) it parses the entire response as JSON; the result is absent only when
\* both attempts fail, and no parse failure is raised.
C23_TwoStageDecoding ==
    call.pc \in {"parsed", "returned", "raised"}
    => LET first == FirstAttempt(call.response)
           whole == JsonLoadsText(call.response)
       IN /\ first # JSONDecodeError => call.result = first
          /\ (first = JSONDecodeError /\ whole # JSONDecodeError) => call.result = whole
          /\ call.result = None <=> (first = JSONDecodeError /\ whole = JSONDecodeError)

\* the final files, the temporary ones left aside
Records(fs) == [p \in {q \in Paths : q.suffix = "json"} |-> fs[p]]

\* C24: when mkdir, the temp-file write or the rename of a save fails, the save
\* returns absent and nothing is raised to the handler; every persisted record
\* (the one of that session id included) is as it was before the save; and the
\* pass goes on: after a failed save_metrics_only it takes the tier-2 steps,
\* after a failed save_insights it emits the completion event.
C24_PersistenceFailure ==
    /\ [](\A i \in DOMAIN passes :
            /\ passes[i].metrics_ret = None
               => /\ passes[i].pc \notin {"raised", "skipped"}
                  /\ passes[i].handler # "raised"
                  /\ Before(passes[i], "save_metrics", "sample")
                  /\ Before(passes[i], "save_metrics", "provider_call")
            /\ passes[i].insights_ret = None
               => /\ passes[i].pc \notin {"raised", "skipped"}
                  /\ passes[i].handler # "raised"
                  /\ Before(passes[i], "save_insights", "emit")
                  /\ Cardinality(EventsOf(i)) = 1)
    /\ [][\A i \in DOMAIN passes :
            ( \/ passes[i].metrics_ret = NotCalled /\ passes'[i].metrics_ret = None
              \/ passes[i].insights_ret = NotCalled /\ passes'[i].insights_ret = None )
            => Records(files') = Records(files)]_vars

\* C24 witness: the rename of a save_insights failed while the record of an
\* earlier analysis of the session, with another outcome, was persisted: that
\* record is still the one on disk, and the failing pass has emitted its event.
C24_RenameFailedOverRecord ==
    \E i, j \in DOMAIN passes :
        /\ passes[j].insights_ret \notin {NotCalled, None}
        /\ passes[i].insights_ret = None
        /\ passes[i].insights.outcome # passes[j].insights.outcome
        /\ InsightsTemp(StorageId(passes[i])).exists
        /\ IsJson(InsightsTemp(StorageId(passes[i])).text)
        /\ InsightsFile(StorageId(passes[i])).text =
              JsonDumps(InsightsDict(passes[j].insights), InsightsKeys)
        /\ EventsOf(i) # {}

\* the trigger of the pass names no session, or a session without a directory,
\* or one whose event log is missing or cannot be read
NothingToAnalyze(pass) ==
    \/ pass.session_id = NoId
    \/ ~pass.session.dir_exists
    \/ pass.session.log.state \in {"missing", "unreadable"}

\* C25 (as claimed): a session-end event with no session id, with an
\* unresolvable session directory, or whose event log is missing or unreadable
\* is acknowledged with a 'continue' result, and leaves storage unchanged,
\* calls no provider and emits no completion event.
C25_SkippedTriggers ==
    \A i \in DOMAIN passes :
        NothingToAnalyze(passes[i])
        => /\ passes[i].handler = "continue"
           /\ files = NoFiles
           /\ passes[i].provider = "not_called"
           /\ ~InTrace(passes[i], "provider_call")
           /\ passes[i].metrics_ret = NotCalled
           /\ passes[i].insights_ret = NotCalled
           /\ emitted = <<>>

\* the classification of how a session concluded
Outcomes == {"success", "partial", "abandoned", "error", "unknown"}

\* C26 (as claimed): every SessionInsights constructed, every persisted
\* insights record and every completion event has its outcome in {success,
\* partial, abandoned, error, unknown}, whatever text the provider returned.
C26_ClosedOutcome ==
    /\ \A i \in DOMAIN passes :
          passes[i].insights # None => passes[i].insights.outcome \in Outcomes
    /\ \A id \in StorageIds :
          LoadInsights(files, id) # None => LoadInsights(files, id).outcome \in Outcomes
    /\ \A k \in DOMAIN emitted : emitted[k].outcome \in Outcomes

\* -------------------------------------------------------- path sanitization
\* _sanitize_path on the file_path of a tool input, as extract_metrics calls it
\* for read_file, write_file and edit_file.  A path is a sequence of
\* characters; the home directory is "/a".
MaxPath == 5
PathChars == {"/", "a", "b"}
FilePaths == UNION {[1..n -> PathChars] : n \in 1..MaxPath}
\* str(Path.home())
Home == <<"/", "a">>

\* Path(path).name: the last component, "" for a path of slashes only
PathName(path) ==
    LET at == {k \in DOMAIN path : path[k] # "/"}
    IN IF at = {} THEN <<>>
       ELSE LET last == CHOOSE k \in at : \A o \in at : o <= k
                before == {k \in 1..last : path[k] = "/"}
                first == IF before = {} THEN 1
                         ELSE (CHOOSE k \in before : \A o \in before : o <= k) + 1
            IN SubSeq(path, first, last)
\* path.startswith(home)
StartsWith(path, prefix) ==
    Len(path) >= Len(prefix) /\ SubSeq(path, 1, Len(prefix)) = prefix

\* _sanitize_path
SanitizePath(include_file_paths, path) ==
    IF ~include_file_paths THEN PathName(path)
    ELSE IF StartsWith(path, Home)
         THEN <<"~">> \o SubSeq(path, Len(Home) + 1, Len(path))
    ELSE path

InitSanitize ==
    /\ config = ConcurrentConfig
    /\ files = NoFiles
    /\ passes = <<>>
    /\ active_tasks = {}
    /\ emitted = <<>>
    /\ op = NoOp
    /\ loaded = None
    /\ committed = [id \in StorageIds |-> None]
    /\ nSaves = 0
    /\ scan = NoCall
    /\ sample = NoCall
    /\ call \in {[pc |-> "sanitize", include_file_paths |-> b, file_path |-> f,
                  files_read |-> {}] : b \in BOOLEAN, f \in FilePaths}

\* files_read.add(self._sanitize_path(file_path))
SanitizeReturn ==
    /\ call.pc = "sanitize"
    /\ call' = [call EXCEPT
                   !.pc = "returned",
                   !.files_read = @ \cup {SanitizePath(call.include_file_paths,
                                                       call.file_path)}]
    /\ UNCHANGED <<hookVars, files, storageVars, scan, sample>>

SpecSanitize == InitSanitize /\ [][SanitizeReturn]_vars

\* ---- the path, read as a string
\* the path is the home directory or lies below it
UnderHome(path) == path = Home \/ StartsWith(path, Home \o <<"/">>)
\* the stored text is the last component of the path: it holds no separator,
\* and in the path it is preceded by a separator or by nothing and followed by
\* separators only
IsFinalComponentOf(stored, path) ==
    /\ \A k \in DOMAIN stored : stored[k] # "/"
    /\ \E from \in 1..(Len(path) + 1) :
          /\ from = 1 \/ path[from - 1] = "/"
          /\ from + Len(stored) - 1 <= Len(path)
          /\ SubSeq(path, from, from + Len(stored) - 1) = stored
          /\ \A k \in (from + Len(stored))..Len(path) : path[k] = "/"

\* C27 (as claimed): with include_file_paths false, every stored path is the
\* bare final component of the path, with no directory part; with it true, a
\* path under the home directory is stored in '~'-relative form and a path not
\* under the home directory is stored unchanged.
C27_PathSanitization ==
    call.pc = "returned"
    => \A stored \in call.files_read :
          IF ~call.include_file_paths
          THEN IsFinalComponentOf(stored, call.file_path)
          ELSE IF UnderHome(call.file_path)
               THEN stored = <<"~">> \o SubSeq(call.file_path, Len(Home) + 1,
                                                Len(call.file_path))
          ELSE stored = call.file_path

\* ------------------------------------------------------ privacy at mount
\* mount's privacy settings: _load_privacy_config reads the user's config.yaml,
\* then the "privacy" section of the module config is laid over it.
PrivacyFields ==
    {"level", "include_file_paths", "include_code_snippets", "redact_sensitive",
     "max_context_tokens"}
\* PrivacyConfig()
PrivacyDefaults ==
    [level |-> "self", include_file_paths |-> TRUE, include_code_snippets |-> FALSE,
     redact_sensitive |-> TRUE, max_context_tokens |-> 50000]
\* a key of a section: not there, or there with a value
Given(v) == [t |-> "given", v |-> v]
\* the privacy section of the module config, and privacy.session_learning of
\* the config file: any subset of the fields
ModuleSections ==
    [level : {PyAbsent, Given("team"), Given("public")},
     include_file_paths : {PyAbsent, Given(TRUE), Given(FALSE)},
     include_code_snippets : {PyAbsent, Given(TRUE), Given(FALSE)},
     redact_sensitive : {PyAbsent, Given(TRUE), Given(FALSE)},
     max_context_tokens : {PyAbsent, Given(1000)}]
FileSections ==
    [level : {PyAbsent, Given("team"), Given("public")},
     include_file_paths : {PyAbsent, Given(TRUE), Given(FALSE)},
     include_code_snippets : {PyAbsent, Given(TRUE), Given(FALSE)},
     redact_sensitive : {PyAbsent, Given(TRUE), Given(FALSE)},
     max_context_tokens : {PyAbsent, Given(2000)}]
\* ~/.amplifier/config.yaml: missing, not loadable (no YAML, or no mapping
\* where one is expected), or loaded with its section (empty if it has none)
ConfigFiles ==
    {[state |-> "missing"], [state |-> "invalid"]} \cup
    {[state |-> "loaded", section |-> s] : s \in FileSections}

\* privacy_section.get(field, default)
SectionGet(section, field, default) ==
    IF section[field].t = "absent" THEN default ELSE section[field].v

\* _load_privacy_config
LoadPrivacyConfig(file) ==
    IF file.state # "loaded" THEN PrivacyDefaults
    ELSE [f \in PrivacyFields |-> SectionGet(file.section, f, PrivacyDefaults[f])]

\* a module section that replaces the file's settings instead of overriding them
MountPrivacyOverDefaults(privacy_section, file) ==
    IF \E f \in PrivacyFields : privacy_section[f].t # "absent"
    THEN [f \in PrivacyFields |-> SectionGet(privacy_section, f, PrivacyDefaults[f])]
    ELSE LoadPrivacyConfig(file)
\* mount: the privacy settings of the hook's config
MountPrivacy(privacy_section, file) ==
    LET privacy_config == LoadPrivacyConfig(file) IN
    IF \E f \in PrivacyFields : privacy_section[f].t # "absent"
    THEN [f \in PrivacyFields |-> SectionGet(privacy_section, f, privacy_config[f])]
    ELSE privacy_config

InitMount ==
    /\ config = ConcurrentConfig
    /\ files = NoFiles
    /\ passes = <<>>
    /\ active_tasks = {}
    /\ emitted = <<>>
    /\ op = NoOp
    /\ loaded = None
    /\ committed = [id \in StorageIds |-> None]
    /\ nSaves = 0
    /\ scan = NoCall
    /\ sample = NoCall
    /\ call \in {[pc |-> "mount", privacy_section |-> s, file |-> f,
                  privacy |-> PrivacyDefaults] : s \in ModuleSections, f \in ConfigFiles}

\* mount(coordinator, config) up to SessionLearningConfig(privacy=privacy_config)
Mount ==
    /\ call.pc = "mount"
    /\ call' = [call EXCEPT !.pc = "mounted",
                            !.privacy = MountPrivacy(call.privacy_section, call.file)]
    /\ UNCHANGED <<hookVars, files, storageVars, scan, sample>>

SpecMount == InitMount /\ [][Mount]_vars

\* C28: after mount, each privacy field has the value the module config gives
\* for it if it gives one, otherwise the value the user's config file gives if
\* it gives one, otherwise the built-in default.
C28_PrivacyPrecedence ==
    call.pc = "mounted"
    => \A f \in PrivacyFields :
          call.privacy[f] =
             IF call.privacy_section[f].t = "given" THEN call.privacy_section[f].v
             ELSE IF call.file.state = "loaded" /\ call.file.section[f].t = "given"
                  THEN call.file.section[f].v
             ELSE PrivacyDefaults[f]

\* C28 witness: a mount where the three sources each decide a field: the level
\* is given by both the module config and the file (the module's wins), the
\* file alone turns include_file_paths off, and redact_sensitive is given by
\* neither.
C28_ThreeSources ==
    /\ call.pc = "mounted"
    /\ call.file.state = "loaded"
    /\ call.privacy_section.level = Given("team")
    /\ call.file.section.level = Given("public")
    /\ call.privacy.level = "team"
    /\ call.privacy_section.include_file_paths = PyAbsent
    /\ call.file.section.include_file_paths = Given(FALSE)
    /\ call.privacy.include_file_paths = FALSE
    /\ call.privacy_section.redact_sensitive = PyAbsent
    /\ call.file.section.redact_sensitive = PyAbsent
    /\ call.privacy.redact_sensitive = TRUE

\* the tier-2 steps of a pass, in the order it took them
TierTwoSteps(pass) ==
    SelectSeq(pass.trace,
              LAMBDA s : s \in {"sample", "provider_call", "save_insights", "emit"})
IsPrefixOf(s, t) == Len(s) <= Len(t) /\ SubSeq(t, 1, Len(s)) = s

\* C29 (as claimed): whenever tier 2 is triggered, its steps occur in the
\* order build sample, provider call, save_insights, emit completion event; a
\* completion event is never emitted before save_insights was invoked for the
\* session, and its session id, outcome and tags are those of the generated
\* insight.
C29_TierTwoOrder ==
    /\ \A i \in DOMAIN passes :
          IsPrefixOf(TierTwoSteps(passes[i]),
                     <<"sample", "provider_call", "save_insights", "emit">>)
    /\ \A k \in DOMAIN emitted :
          LET pass == passes[emitted[k].pass] IN
          /\ Before(pass, "save_insights", "emit")
          /\ pass.insights_ret # NotCalled
          /\ pass.insights # None
          /\ emitted[k].session_id = pass.insights.session_id
          /\ emitted[k].outcome = pass.insights.outcome
          /\ emitted[k].tags = pass.insights.tags

\* the completion requests the pass has issued
ProviderCalls(pass) == {k \in DOMAIN pass.trace : pass.trace[k] = "provider_call"}

\* C30: within one analysis pass the provider's completion operation is
\* invoked at most once: a pass waits for the provider only while no call of
\* it has ended, and once its call has ended (answer, exception, timeout,
\* empty or malformed response) the pass never waits for the provider again.
C30_NoRetry ==
    /\ [](\A i \in DOMAIN passes :
            /\ Cardinality(ProviderCalls(passes[i])) <= 1
            /\ passes[i].pc = "await_provider" => passes[i].provider = "not_called")
    /\ [][\A i \in DOMAIN passes :
            passes[i].provider # "not_called"
            => /\ passes'[i].pc # "await_provider"
               /\ passes'[i].provider = passes[i].provider
               /\ ProviderCalls(passes'[i]) = ProviderCalls(passes[i])]_vars

\* C30 witness: a pass has ended after its one provider call raised.
C30_EndedAfterException ==
    \E i \in DOMAIN passes :
        /\ passes[i].provider = "exception"
        /\ passes[i].pc = "done"
        /\ Cardinality(ProviderCalls(passes[i])) = 1

\* C35: in an analysis pass that is not cancelled, a completion event is
\* emitted exactly when generate_insights returned an insight, and then once,
\* whatever save_insights returned: also when it returned absent, so that the
\* event can exist for a session with no persisted insights record.
C35_EventFollowsGeneration ==
    \A i \in DOMAIN passes :
        passes[i].pc # "cancelled"
        => /\ EventsOf(i) # {} <=> passes[i].insights # None
           /\ Cardinality(EventsOf(i)) <= 1
           /\ (passes[i].insights # None /\ passes[i].insights_ret = None)
                 => Cardinality(EventsOf(i)) = 1

\* C35 witness: a pass ran to its end with an insight generated and
\* save_insights returning absent: its completion event is emitted and the
\* session has no insights record on disk.
C35_EventWithoutRecord ==
    \E i \in DOMAIN passes :
        /\ passes[i].pc = "done"
        /\ passes[i].insights # None
        /\ passes[i].insights_ret = None
        /\ EventsOf(i) # {}
        /\ ~InsightsFile(StorageId(passes[i])).exists

\* C37: for the same session, configuration and provider behaviour, and with
\* no cancellation, the analysis run as a background task leaves the same
\* persisted records and hands the host the same sequence of events as the
\* analysis run inline; the handler's result is the same, and only its
\* moment differs: the background handler has returned before any effect,
\* the inline one returns after them.
C37_ModesEquivalent ==
    /\ (Len(passes) = 2 /\ Finished(passes[2]))
          => /\ files = call.inline.files
             /\ Received(emitted) = call.inline.events
             /\ passes[2].handler = call.inline.handler
    /\ (Len(passes) = 2 /\ passes[2].pc = "spawned")
          => /\ passes[2].handler = "continue"
             /\ files = NoFiles
             /\ emitted = <<>>
    /\ (Len(passes) = 1 /\ passes[1].handler = "running")
          => passes[1].pc \in {"await_provider", "await_emit"}

\* C37 witness: both analyses ran to their end, the inline one having
\* persisted a metrics record and an insights record and emitted its event,
\* and the background one having done the same after its handler returned.
C37_BothModesRan ==
    /\ Len(passes) = 2
    /\ passes[2].pc = "done"
    /\ config.run_in_background
    /\ InTrace(passes[2], "emit")
    /\ Len(call.inline.events) = 1
    /\ Len(emitted) = 1
    /\ MetricsFile(StorageId(passes[2])).exists
    /\ InsightsFile(StorageId(passes[2])).exists
    /\ 2 \notin active_tasks



====
